---- MODULE Spec2Model ----
(***************************************************************************)
(* Model of the daily-limit plugin (src/main.py) and of the parts of its   *)
(* web dashboard (src/web_server.py) that touch the same state.            *)
(*                                                                         *)
(* Strings that the code joins with ":" are modelled as sequences of       *)
(* ":"-free segments, so that "a:b" is <<"a", "b">> and string             *)
(* concatenation with a ":" separator is sequence concatenation.           *)
(* A time of day "HH:MM" is the pair <<HH, MM>>; the wall clock is a       *)
(* whole number of seconds since midnight of day 0.                        *)
(***************************************************************************)
EXTENDS Integers, Sequences, FiniteSets, TLC

VARIABLES
    redis,                  \* self.redis: TRUE = connection object, FALSE = None
    redis_data,             \* the Redis key space: key -> integer value / list length
    redis_ttl,              \* key -> absolute time (seconds) at which the key expires
    exempt_users,           \* self.config["limits"]["exempt_users"]
    default_daily_limit,    \* self.config["limits"]["default_daily_limit"]
    user_limits,            \* self.user_limits
    group_limits,           \* self.group_limits
    group_modes,            \* self.group_modes
    time_period_limits,     \* self.time_period_limits
    config_time_period_limits, \* self.config["limits"]["time_period_limits"]
    tpl_shared,             \* TRUE when the two lists above are one list object
    now,                    \* wall clock, seconds since 00:00:00 of day 0
    pc,                     \* position of each in-flight on_llm_request call
    req,                    \* locals of each in-flight on_llm_request call
    last,                   \* outcome of the latest completed request (history)
    epoch,                  \* per counter key: requests since the last change of
                            \* policy, clock or connection (history)
    denied,                 \* counter keys that were refused for quota (history)
    nreq,                   \* number of requests started
    nmut,                   \* number of administrative operations performed
    fs,                     \* the trend storage directory: path -> file content
    lock,                   \* TrendDataStorage._lock: the thread that holds it
    tpc,                    \* position of each thread inside save_daily_stats
    tloc,                   \* locals of each save_daily_stats call
    cleaned,                \* value returned by the latest cleanup_old_data
    _cleanup_running,       \* WebServer._cleanup_running
    wpc,                    \* position of the cleanup worker thread
    nsave,                  \* number of save_daily_stats calls started
    ncycle,                 \* number of worker cycles completed
    _server_running,        \* WebServer._server_running
    _server_thread,         \* WebServer._server_thread: the state of the thread
    _cleanup_thread,        \* WebServer._cleanup_thread: the latest worker, or 0
    threads,                \* position of every worker thread ever created
    spc,                    \* position of the caller of stop()
    signalled               \* workers that a stop() has signalled (history)

trend_vars == <<fs, lock, tpc, tloc, cleaned, nsave>>

server_vars == <<_server_running, _server_thread, _cleanup_thread, threads, spc,
                 signalled>>

worker_vars == <<_cleanup_running, wpc, ncycle, server_vars>>

vars == <<redis, redis_data, redis_ttl, exempt_users, default_daily_limit,
          user_limits, group_limits, group_modes, time_period_limits,
          config_time_period_limits, tpl_shared, now, pc, req, last, epoch,
          denied, nreq, nmut, trend_vars, worker_vars>>

policy_vars == <<exempt_users, default_daily_limit, user_limits, group_limits,
                 group_modes, time_period_limits, config_time_period_limits,
                 tpl_shared>>

store_vars == <<redis_data, redis_ttl>>

-----------------------------------------------------------------------------
(* Bounds of the model.                                                    *)

MaxRequests == 3
MaxMutations == 1
MaxDay == 1
MaxWindows == 2
MaxSaves == 3
MaxCycles == 2
MaxWorkers == 2

(* Program constants.                                                      *)

SecondsPerDay == 86400
Inf == 1000000

-----------------------------------------------------------------------------
(* Identifiers and inputs.                                                 *)

None == <<>>

Users == {<<"1001">>, <<"1002">>}
Groups == {<<"2001">>}
Procs == {"p1", "p2"}

U1 == <<"1001">>
U2 == <<"1002">>
G1 == <<"2001">>

\* the requests that arrive: <<sender, group or None, skipped>>
Requests ==
    { <<U1, None, FALSE>>, <<U1, G1, FALSE>>, <<U2, G1, FALSE>>, <<U2, None, TRUE>> }

SetLimits == {0}
GroupSetLimits == {1}

\* seconds of the day at which the model looks at the clock:
\* 05:00:00, 12:00:30 and 23:30:00
ClockPoints == {18000, 43230, 84600}

Window(s, e, l, en) == [start_time |-> s, end_time |-> e, limit |-> l, enabled |-> en]

\* arguments of "/limit timeperiod add": a window around noon and a window
\* whose start time does not parse
AddChoices ==
    { <<(<<10, 0>>), (<<14, 0>>), 2>>,
      <<(<<25, 0>>), (<<6, 0>>), 1>> }

-----------------------------------------------------------------------------
(* Clock and formatting.                                                   *)

DayOf(t) == t \div SecondsPerDay
SecondOfDay(t) == t % SecondsPerDay

\* strftime("%Y-%m-%d"): one date string per day
DateStr(t) ==
    CASE DayOf(t) = 0 -> "2025-01-01"
      [] DayOf(t) = 1 -> "2025-01-02"
      [] DayOf(t) = 2 -> "2025-01-03"
      [] OTHER -> "2025-01-04"

\* strftime("%H:%M"): the seconds are dropped
strftime_HM(t) == <<SecondOfDay(t) \div 3600, (SecondOfDay(t) \div 60) % 60>>

ValueError == -1

\* strptime(s, "%H:%M").time() as minutes since midnight, or ValueError
strptime_HM(s) ==
    IF s[1] \in 0..23 /\ s[2] \in 0..59 THEN s[1] * 60 + s[2] ELSE ValueError

\* str(i) for a list index
IndexStr(i) ==
    CASE i = 0 -> "0"
      [] i = 1 -> "1"
      [] i = 2 -> "2"
      [] i = 3 -> "3"
      [] OTHER -> "4"

-----------------------------------------------------------------------------
(* Policy resolver (src/main.py, DailyLimitPlugin).                        *)

NoLimit == -1
NoKey == <<>>

_get_group_mode(g) ==
    IF g = None \/ g = <<"">> THEN "individual"
    ELSE IF g \in DOMAIN group_modes THEN group_modes[g]
    ELSE "shared"

\* variant: no case for a window that wraps past midnight
_is_in_time_period_same_day(current_time_str, start_time_str, end_time_str) ==
    LET current_time == strptime_HM(current_time_str)
        start_time == strptime_HM(start_time_str)
        end_time == strptime_HM(end_time_str)
    IN  IF current_time = ValueError \/ start_time = ValueError \/ end_time = ValueError
        THEN FALSE
        ELSE start_time <= current_time /\ current_time <= end_time

_is_in_time_period(current_time_str, start_time_str, end_time_str) ==
    LET current_time == strptime_HM(current_time_str)
        start_time == strptime_HM(start_time_str)
        end_time == strptime_HM(end_time_str)
    IN  IF current_time = ValueError \/ start_time = ValueError \/ end_time = ValueError
        THEN FALSE
        ELSE IF start_time <= end_time
             THEN start_time <= current_time /\ current_time <= end_time
             ELSE current_time >= start_time \/ current_time <= end_time

\* the positions (1-based) of the configured windows that contain the time t
MatchingPeriods(tpl, t) ==
    { i \in 1..Len(tpl) :
        _is_in_time_period(strftime_HM(t), tpl[i].start_time, tpl[i].end_time) }

\* variant: the last match wins
LastOf(S) == CHOOSE i \in S : \A j \in S : i >= j

FirstOf(S) == CHOOSE i \in S : \A j \in S : i <= j

_get_current_time_period_limit ==
    LET m == MatchingPeriods(time_period_limits, now)
    IN  IF m = {} THEN NoLimit ELSE time_period_limits[FirstOf(m)].limit

_get_user_limit(user_id, group_id) ==
    IF user_id \in exempt_users THEN Inf
    ELSE IF _get_current_time_period_limit # NoLimit THEN _get_current_time_period_limit
    ELSE IF user_id \in DOMAIN user_limits THEN user_limits[user_id]
    ELSE IF group_id # None /\ group_id # <<"">> /\ group_id \in DOMAIN group_limits
         THEN group_limits[group_id]
    ELSE default_daily_limit

-----------------------------------------------------------------------------
(* Redis keys.                                                             *)

GroupPart(group_id) == IF group_id = None THEN <<"private_chat">> ELSE group_id
UserPart(user_id) == IF user_id = None THEN <<"None">> ELSE user_id

_get_today_key == <<"astrbot", "daily_limit", DateStr(now)>>

_get_user_key(user_id, group_id) ==
    _get_today_key \o GroupPart(group_id) \o user_id

_get_group_key(group_id) == _get_today_key \o <<"group">> \o group_id

_get_usage_record_key(user_id, group_id) ==
    <<"astrbot", "usage_record", DateStr(now)>> \o GroupPart(group_id) \o user_id

_get_usage_stats_key == <<"astrbot", "usage_stats", DateStr(now)>>

\* the key of the counter of the window with the 0-based index time_period_id
TimePeriodKey(time_period_id, user_id, group_id) ==
    <<"astrbot", "time_period_limit", DateStr(now), IndexStr(time_period_id)>>
    \o GroupPart(group_id) \o UserPart(user_id)

\* the key of the window counter for the first window containing now, or
\* NoKey when no window contains now
_get_time_period_usage_key(user_id, group_id) ==
    LET m == MatchingPeriods(time_period_limits, now)
    IN  IF m = {} THEN NoKey
        ELSE TimePeriodKey(FirstOf(m) - 1, user_id, group_id)

-----------------------------------------------------------------------------
(* Redis commands on a store st = [data |-> key -> value, ttl |-> key -> time] *)

Store == [data |-> redis_data, ttl |-> redis_ttl]

Get(data, key) == IF key \in DOMAIN data THEN data[key] ELSE 0

Put(f, key, v) == [k \in DOMAIN f \cup {key} |-> IF k = key THEN v ELSE f[k]]

Drop(f, keys) == [k \in DOMAIN f \ keys |-> f[k]]

RECURSIVE SumOver(_, _)
\* the sum of the values of data under the keys of S
SumOver(data, S) ==
    IF S = {} THEN 0
    ELSE LET k == CHOOSE x \in S : TRUE
         IN  data[k] + SumOver(data, S \ {k})

\* INCR / RPUSH / HINCRBY: create at 0 if absent, add one; an existing
\* expiry is kept
Incr(st, key) == [st EXCEPT !.data = Put(st.data, key, Get(st.data, key) + 1)]

\* EXPIRE key seconds, issued at time now
Expire(st, key, seconds) ==
    IF key \in DOMAIN st.data
    THEN [st EXCEPT !.ttl = Put(st.ttl, key, now + seconds)]
    ELSE st

\* variant: a time-to-live of one full day
seconds_one_day == SecondsPerDay

\* int((tomorrow 00:00:00 - now).total_seconds())
seconds_until_tomorrow == SecondsPerDay - SecondOfDay(now)

\* pipeline: INCR key; EXPIRE key seconds_until_tomorrow
IncrAndExpire(st, key) == Expire(Incr(st, key), key, seconds_until_tomorrow)

\* what Redis does by itself when the clock reaches t
ExpireKeys(st, t) ==
    LET dead == { k \in DOMAIN st.ttl : st.ttl[k] <= t }
    IN  [data |-> Drop(st.data, dead), ttl |-> Drop(st.ttl, dead)]

-----------------------------------------------------------------------------
(* Usage counters.                                                         *)

_get_time_period_usage(user_id, group_id) ==
    IF ~redis THEN 0
    ELSE IF _get_time_period_usage_key(user_id, group_id) = NoKey THEN 0
    ELSE Get(redis_data, _get_time_period_usage_key(user_id, group_id))

_get_user_usage(user_id, group_id) ==
    IF ~redis THEN 0
    ELSE IF _get_current_time_period_limit # NoLimit
         THEN _get_time_period_usage(user_id, group_id)
    ELSE Get(redis_data, _get_user_key(user_id, group_id))

_get_group_usage(group_id) ==
    IF ~redis THEN 0
    ELSE IF _get_current_time_period_limit # NoLimit
         THEN _get_time_period_usage(None, group_id)
    ELSE Get(redis_data, _get_group_key(group_id))

\* returns [ok |-> the Python return value, st |-> the store afterwards]
_increment_time_period_usage(st, user_id, group_id) ==
    IF ~redis THEN [ok |-> FALSE, st |-> st]
    ELSE IF _get_time_period_usage_key(user_id, group_id) = NoKey
         THEN [ok |-> FALSE, st |-> st]
    ELSE [ok |-> TRUE,
          st |-> IncrAndExpire(st, _get_time_period_usage_key(user_id, group_id))]

_increment_user_usage(st, user_id, group_id) ==
    IF ~redis THEN st
    ELSE IF _get_current_time_period_limit # NoLimit
            /\ _increment_time_period_usage(st, user_id, group_id).ok
         THEN _increment_time_period_usage(st, user_id, group_id).st
    ELSE IncrAndExpire(st, _get_user_key(user_id, group_id))

_increment_group_usage(st, group_id) ==
    IF ~redis THEN st
    ELSE IF _get_current_time_period_limit # NoLimit
            /\ _increment_time_period_usage(st, None, group_id).ok
         THEN _increment_time_period_usage(st, None, group_id).st
    ELSE IncrAndExpire(st, _get_group_key(group_id))

\* HINCRBY on each statistics hash, then EXPIRE on each that exists
_update_usage_stats(st, user_id, group_id) ==
    IF ~redis THEN st
    ELSE LET user_stats_key == _get_usage_stats_key \o <<"user">> \o user_id
             global_stats_key == _get_usage_stats_key \o <<"global">>
             st2 == IncrAndExpire(IncrAndExpire(st, user_stats_key), global_stats_key)
         IN  IF group_id # None /\ group_id # <<"">>
             THEN IncrAndExpire(
                    IncrAndExpire(st2, _get_usage_stats_key \o <<"group">> \o group_id),
                    _get_usage_stats_key \o <<"group">> \o group_id \o <<"user">> \o user_id)
             ELSE st2

\* variant: the record is pushed but the statistics are not updated
_record_usage_list_only(st, user_id, group_id) ==
    IF ~redis THEN st
    ELSE IncrAndExpire(st, _get_usage_record_key(user_id, group_id))

\* RPUSH on the record list, EXPIRE, then the statistics
_record_usage(st, user_id, group_id) ==
    IF ~redis THEN st
    ELSE _update_usage_stats(
            IncrAndExpire(st, _get_usage_record_key(user_id, group_id)),
            user_id, group_id)

-----------------------------------------------------------------------------
(* on_llm_request, statement by statement.  The locals of one call are a   *)
(* record; key is the counter key that the usage was read from and         *)
(* consumed tells whether the increment changed the store (history).       *)

NoRequest ==
    [user |-> None, group |-> None, decision |-> "None", reason |-> "",
     limit |-> NoLimit, usage |-> 0, key |-> NoKey, reminder |-> FALSE,
     consumed |-> FALSE]

Returned(user_id, group_id, decision, reason) ==
    [NoRequest EXCEPT !.user = user_id, !.group = group_id,
                      !.decision = decision, !.reason = reason]

\* entry of the handler up to the call of _get_user_limit; skip stands for
\* "the prompt is empty or the message starts with a skip pattern"
request_entry(user_id, group_id, skip) ==
    IF ~redis THEN Returned(user_id, group_id, "Denied", "store_unavailable")
    ELSE IF skip THEN Returned(user_id, group_id, "Skipped", "")
    ELSE IF user_id \in exempt_users THEN Returned(user_id, group_id, "Exempt", "")
    ELSE [Returned(user_id, group_id, "Pending", "")
            EXCEPT !.limit = _get_user_limit(user_id, group_id)]

\* the key that _get_group_usage / _get_user_usage read for this request
usage_key(user_id, group_id) ==
    LET shared == group_id # None /\ _get_group_mode(group_id) = "shared"
    IN  IF _get_current_time_period_limit # NoLimit
        THEN _get_time_period_usage_key(IF shared THEN None ELSE user_id, group_id)
        ELSE IF shared THEN _get_group_key(group_id)
        ELSE _get_user_key(user_id, group_id)

read_usage(r) ==
    [r EXCEPT
       !.usage = IF r.group # None /\ _get_group_mode(r.group) = "shared"
                 THEN _get_group_usage(r.group)
                 ELSE _get_user_usage(r.user, r.group),
       !.key = usage_key(r.user, r.group)]

\* variant: the comparison is off by one
limit_reached_strict(usage, limit) == usage > limit

limit_reached(usage, limit) == usage >= limit

needs_reminder(remaining) == remaining \in {1, 3, 5}

check_limit(r) ==
    IF limit_reached(r.usage, r.limit)
    THEN [r EXCEPT !.decision = "Denied", !.reason = "limit"]
    ELSE [r EXCEPT !.reminder = needs_reminder(r.limit - r.usage)]

\* variant: every group message counts against the group's shared counter
increment_usage_group_only(st, r) ==
    IF r.group # None
    THEN _increment_group_usage(st, r.group)
    ELSE _increment_user_usage(st, r.user, r.group)

increment_usage(st, r) ==
    IF r.group # None /\ _get_group_mode(r.group) = "shared"
    THEN _increment_group_usage(st, r.group)
    ELSE _increment_user_usage(st, r.user, r.group)

\* variant: the usage is counted before the limit is looked at
store_after_check_count_first(st, r) ==
    _record_usage(increment_usage(st, r), r.user, r.group)

\* the store after the part of the handler that follows the limit check
store_after_check(st, r) ==
    IF r.decision = "Denied" THEN st
    ELSE _record_usage(increment_usage(st, r), r.user, r.group)

-----------------------------------------------------------------------------
(* History kept for the properties.                                        *)

\* epoch[k] = [n: requests checked against k, allowed: those allowed,
\*             lim: the limit of the first, same: all had that limit,
\*             base: usage seen by the first]
EpochAfter(r) ==
    IF r.key = NoKey THEN epoch
    ELSE IF r.key \in DOMAIN epoch
    THEN [epoch EXCEPT ![r.key] =
            [n |-> @.n + 1,
             allowed |-> @.allowed + (IF r.decision = "Allowed" THEN 1 ELSE 0),
             lim |-> @.lim,
             same |-> @.same /\ @.lim = r.limit,
             base |-> @.base]]
    ELSE Put(epoch, r.key,
             [n |-> 1, allowed |-> IF r.decision = "Allowed" THEN 1 ELSE 0,
              lim |-> r.limit, same |-> TRUE, base |-> r.usage])

DeniedAfter(r) ==
    IF r.decision = "Denied" /\ r.reason = "limit" THEN denied \cup {r.key}
    ELSE denied

Finish(r) ==
    /\ last' = r
    /\ epoch' = EpochAfter(r)
    /\ denied' = DeniedAfter(r)

EmptyMap == [k \in {} |-> 0]

Disturb ==
    /\ last' = NoRequest
    /\ epoch' = EmptyMap

Idle == \A p \in Procs : pc[p] = "idle"

-----------------------------------------------------------------------------
(* The request handler as one sequential call.                             *)

on_llm_request(user_id, group_id, skip) ==
    /\ Idle
    /\ nreq < MaxRequests
    /\ nreq' = nreq + 1
    /\ LET r1 == request_entry(user_id, group_id, skip)
           r3 == check_limit(read_usage(r1))
           st == store_after_check(Store, r3)
       IN  IF r1.decision # "Pending"
           THEN Finish(r1) /\ UNCHANGED store_vars
           ELSE /\ Finish(IF r3.decision = "Denied" THEN r3
                          ELSE [r3 EXCEPT !.decision = "Allowed",
                                          !.consumed = increment_usage(Store, r3) # Store])
                /\ redis_data' = st.data
                /\ redis_ttl' = st.ttl
    /\ UNCHANGED <<redis, policy_vars, now, pc, req, nmut, trend_vars, worker_vars>>

-----------------------------------------------------------------------------
(* The request handler as interleaved steps of concurrent calls: another   *)
(* call, or the dashboard thread, may run between any two of them.         *)

req_enter(p, user_id, group_id, skip) ==
    /\ pc[p] = "idle"
    /\ nreq < MaxRequests
    /\ nreq' = nreq + 1
    /\ LET r1 == request_entry(user_id, group_id, skip)
       IN  IF r1.decision # "Pending"
           THEN Finish(r1) /\ UNCHANGED <<pc, req>>
           ELSE /\ pc' = [pc EXCEPT ![p] = "usage"]
                /\ req' = [req EXCEPT ![p] = r1]
                /\ UNCHANGED <<last, epoch, denied>>
    /\ UNCHANGED <<redis, store_vars, policy_vars, now, nmut, trend_vars, worker_vars>>

req_read_usage(p) ==
    /\ pc[p] = "usage"
    /\ pc' = [pc EXCEPT ![p] = "check"]
    /\ req' = [req EXCEPT ![p] = read_usage(req[p])]
    /\ UNCHANGED <<redis, store_vars, policy_vars, now, last, epoch, denied, nreq, nmut,
                   trend_vars, worker_vars>>

req_check(p) ==
    /\ pc[p] = "check"
    /\ LET r == check_limit(req[p])
       IN  IF r.decision = "Denied"
           THEN /\ Finish(r)
                /\ pc' = [pc EXCEPT ![p] = "idle"]
                /\ req' = [req EXCEPT ![p] = NoRequest]
           ELSE /\ pc' = [pc EXCEPT ![p] = "incr"]
                /\ req' = [req EXCEPT ![p] = r]
                /\ UNCHANGED <<last, epoch, denied>>
    /\ UNCHANGED <<redis, store_vars, policy_vars, now, nreq, nmut, trend_vars, worker_vars>>

req_increment(p) ==
    /\ pc[p] = "incr"
    /\ LET st == increment_usage(Store, req[p])
       IN  /\ redis_data' = st.data
           /\ redis_ttl' = st.ttl
           /\ req' = [req EXCEPT ![p].consumed = (st # Store)]
    /\ pc' = [pc EXCEPT ![p] = "record"]
    /\ UNCHANGED <<redis, policy_vars, now, last, epoch, denied, nreq, nmut,
                   trend_vars, worker_vars>>

req_record(p) ==
    /\ pc[p] = "record"
    /\ LET st == _record_usage(Store, req[p].user, req[p].group)
       IN  /\ redis_data' = st.data
           /\ redis_ttl' = st.ttl
    /\ Finish([req[p] EXCEPT !.decision = "Allowed"])
    /\ pc' = [pc EXCEPT ![p] = "idle"]
    /\ req' = [req EXCEPT ![p] = NoRequest]
    /\ UNCHANGED <<redis, policy_vars, now, nreq, nmut, trend_vars, worker_vars>>

-----------------------------------------------------------------------------
(* Administrative commands.  The lists of user limits, group limits and    *)
(* group modes in the configuration file are written together with the     *)
(* dictionaries in memory and are not kept separately.                     *)

Admin ==
    /\ Idle
    /\ nmut < MaxMutations
    /\ nmut' = nmut + 1
    /\ Disturb
    /\ UNCHANGED <<redis, store_vars, now, pc, req, denied, nreq, trend_vars, worker_vars>>

\* variant: the limit reaches the configuration file only, not self.user_limits
limit_set_config_only(user_id, limit) ==
    /\ Admin
    /\ UNCHANGED policy_vars

limit_set(user_id, limit) ==
    /\ Admin
    /\ user_limits' = IF limit < 0 THEN user_limits ELSE Put(user_limits, user_id, limit)
    /\ UNCHANGED <<exempt_users, default_daily_limit, group_limits, group_modes,
                   time_period_limits, config_time_period_limits, tpl_shared>>

limit_setgroup(group_id, limit) ==
    /\ Admin
    /\ group_limits' = IF limit < 0 THEN group_limits ELSE Put(group_limits, group_id, limit)
    /\ UNCHANGED <<exempt_users, default_daily_limit, user_limits, group_modes,
                   time_period_limits, config_time_period_limits, tpl_shared>>

\* variant: the switch starts the group afresh by dropping its shared counter
limit_setmode_migrate(group_id, mode) ==
    /\ Idle
    /\ nmut < MaxMutations
    /\ nmut' = nmut + 1
    /\ Disturb
    /\ group_modes' = IF mode \in {"shared", "individual"}
                      THEN Put(group_modes, group_id, mode) ELSE group_modes
    /\ redis_data' = Drop(redis_data, {_get_group_key(group_id)})
    /\ redis_ttl' = Drop(redis_ttl, {_get_group_key(group_id)})
    /\ UNCHANGED <<redis, now, pc, req, denied, nreq, trend_vars, worker_vars>>
    /\ UNCHANGED <<exempt_users, default_daily_limit, user_limits, group_limits,
                   time_period_limits, config_time_period_limits, tpl_shared>>

limit_setmode(group_id, mode) ==
    /\ Admin
    /\ group_modes' = IF mode \in {"shared", "individual"}
                      THEN Put(group_modes, group_id, mode) ELSE group_modes
    /\ UNCHANGED <<exempt_users, default_daily_limit, user_limits, group_limits,
                   time_period_limits, config_time_period_limits, tpl_shared>>

limit_exempt(user_id) ==
    /\ Admin
    /\ exempt_users' = exempt_users \cup {user_id}
    /\ UNCHANGED <<default_daily_limit, user_limits, group_limits, group_modes,
                   time_period_limits, config_time_period_limits, tpl_shared>>

limit_unexempt(user_id) ==
    /\ Admin
    /\ exempt_users' = exempt_users \ {user_id}
    /\ UNCHANGED <<default_daily_limit, user_limits, group_limits, group_modes,
                   time_period_limits, config_time_period_limits, tpl_shared>>

\* self.config["limits"]["time_period_limits"] = self.time_period_limits:
\* from now on the configuration holds the very list object of the plugin
_save_time_period_limits ==
    /\ config_time_period_limits' = time_period_limits'
    /\ tpl_shared' = TRUE

TimePeriodCommand ==
    /\ Admin
    /\ UNCHANGED <<exempt_users, default_daily_limit, user_limits, group_limits,
                   group_modes>>

limit_timeperiod_add(start_time, end_time, limit) ==
    /\ TimePeriodCommand
    /\ Len(time_period_limits) < MaxWindows
    /\ IF limit = 0 \/ strptime_HM(start_time) = ValueError
          \/ strptime_HM(end_time) = ValueError \/ limit < 1
       THEN UNCHANGED <<time_period_limits, config_time_period_limits, tpl_shared>>
       ELSE /\ time_period_limits' =
                  Append(time_period_limits, Window(start_time, end_time, limit, "True"))
            /\ _save_time_period_limits

RemoveAt(seq, i) == [j \in 1..(Len(seq) - 1) |-> IF j < i THEN seq[j] ELSE seq[j + 1]]

\* index is the 1-based position given on the command line
limit_timeperiod_remove(index) ==
    /\ TimePeriodCommand
    /\ IF index - 1 < 0 \/ index - 1 >= Len(time_period_limits)
       THEN UNCHANGED <<time_period_limits, config_time_period_limits, tpl_shared>>
       ELSE /\ time_period_limits' = RemoveAt(time_period_limits, index)
            /\ _save_time_period_limits

limit_timeperiod_enable(index) ==
    /\ TimePeriodCommand
    /\ IF index - 1 < 0 \/ index - 1 >= Len(time_period_limits)
       THEN UNCHANGED <<time_period_limits, config_time_period_limits, tpl_shared>>
       ELSE /\ time_period_limits' = [time_period_limits EXCEPT ![index].enabled = "True"]
            /\ _save_time_period_limits

limit_timeperiod_disable(index) ==
    /\ TimePeriodCommand
    /\ IF index - 1 < 0 \/ index - 1 >= Len(time_period_limits)
       THEN UNCHANGED <<time_period_limits, config_time_period_limits, tpl_shared>>
       ELSE /\ time_period_limits' = [time_period_limits EXCEPT ![index].enabled = "False"]
            /\ _save_time_period_limits

-----------------------------------------------------------------------------
(* Loading the policy and the dashboard's configuration update.            *)

\* the test of _load_limits_from_config on one configured window; a window
\* without an "enabled" entry counts as enabled
\* variant: the times of a configured window are not validated
Loadable_unvalidated(w) ==
    /\ w.enabled # "False"

Loadable(w) ==
    /\ w.enabled # "False"
    /\ strptime_HM(w.start_time) # ValueError
    /\ strptime_HM(w.end_time) # ValueError

\* the loaded copy carries no "enabled" entry
Loaded(w) == Window(w.start_time, w.end_time, w.limit, "Missing")

RECURSIVE LoadLoop(_, _, _, _)
\* the loop over the configured windows, appending to the plugin's list dst;
\* when both are one list object the loop reads what it appends, and the
\* model stops it at MaxWindows entries
LoadLoop(src, dst, i, shared) ==
    LET from == IF shared THEN dst ELSE src
    IN  IF i > Len(from) \/ Len(dst) >= MaxWindows THEN dst
        ELSE IF Loadable(from[i])
             THEN LoadLoop(src, Append(dst, Loaded(from[i])), i + 1, shared)
             ELSE LoadLoop(src, dst, i + 1, shared)

LoadableCount(seq) == Cardinality({i \in 1..Len(seq) : Loadable(seq[i])})

\* the time-window part of _load_limits_from_config on a running plugin
_load_limits_from_config ==
    /\ tpl_shared \/ Len(time_period_limits)
                       + LoadableCount(config_time_period_limits) <= MaxWindows
    /\ time_period_limits' =
          LoadLoop(config_time_period_limits, time_period_limits, 1, tpl_shared)
    /\ config_time_period_limits' =
          IF tpl_shared THEN time_period_limits' ELSE config_time_period_limits
    /\ UNCHANGED <<exempt_users, default_daily_limit, user_limits, group_limits,
                   group_modes, tpl_shared>>

\* _init_redis: ping tells whether the server answers
_init_redis(ping) == redis' = ping

\* WebServer._update_config with a redis_config entry ("ok" / "fail": does
\* the new server answer) or without one ("keep")
update_config(redis_config) ==
    /\ nmut < MaxMutations
    /\ nmut' = nmut + 1
    /\ IF redis_config = "keep" THEN UNCHANGED redis
       ELSE _init_redis(redis_config = "ok")
    /\ _load_limits_from_config
    /\ Disturb
    /\ UNCHANGED <<store_vars, now, pc, req, denied, nreq, trend_vars, worker_vars>>

-----------------------------------------------------------------------------
(* Trend data storage (src/web_server.py, TrendDataStorage). A date is the  *)
(* number of its day, which orders as its "%Y-%m-%d" string does; a file    *)
(* is <<date key, extension>>; a statistics dictionary is a function from   *)
(* field names to numbers.                                                  *)

plugin_vars == <<redis, store_vars, policy_vars, now, pc, req, last, epoch,
                 denied, nreq, nmut>>

TrendThreads == {"t1", "t2"}
NoThread == "none"

\* locals of save_daily_stats: ok is the value it returns
NoSave == [date_key |-> 0, stats_data |-> EmptyMap, data |-> EmptyMap, ok |-> FALSE]

\* max_days of the storage that the server creates
max_days == 365

\* a file that json.load cannot read: opened for writing, not yet complete
Partial == [complete |-> FALSE, data |-> EmptyMap]
Complete(data) == [complete |-> TRUE, data |-> data]

\* strftime("%Y-%m-%d") of a datetime
_get_date_key(date_obj) == DayOf(date_obj)

_get_file_path(date_key) == <<date_key, "json">>

\* variant: the data is written into the file itself
temp_file_in_place(file_path) == file_path

\* f"{file_path}.tmp"
temp_file(file_path) == <<file_path[1], "json.tmp">>

\* None for a missing file and for one that does not parse
_load_json_file(file_path) ==
    IF file_path \notin DOMAIN fs THEN None
    ELSE IF ~fs[file_path].complete THEN None
    ELSE fs[file_path].data

load_daily_stats(date_obj) == _load_json_file(_get_file_path(_get_date_key(date_obj)))

\* variant: the new dictionary replaces the stored one
update_replace(existing_data, stats_data) == stats_data

\* dict.update
update(existing_data, stats_data) ==
    [f \in DOMAIN existing_data \cup DOMAIN stats_data |->
        IF f \in DOMAIN stats_data THEN stats_data[f] ELSE existing_data[f]]

\* the dictionary that save_daily_stats hands to _save_json_file
MergedStats(existing_data, stats_data, date_key) ==
    LET m == IF DOMAIN existing_data # {} THEN update(existing_data, stats_data)
             ELSE stats_data
    IN  [f \in DOMAIN m \cup {"date", "saved_at"} |->
            CASE f = "date" -> date_key
              [] f = "saved_at" -> now
              [] OTHER -> m[f]]

\* variant: the lock is never waited for
CanAcquire_unlocked(holder) == TRUE

\* threading.Lock: free when no thread holds it
CanAcquire(holder) == holder = NoThread

\* save_daily_stats up to "with self._lock": an empty dictionary is refused
save_daily_stats(th, date_obj, stats_data) ==
    /\ tpc[th] = "idle"
    /\ nsave < MaxSaves
    /\ nsave' = nsave + 1
    /\ IF DOMAIN stats_data = {}
       THEN UNCHANGED <<tpc, tloc>>
       ELSE /\ tpc' = [tpc EXCEPT ![th] = "lock"]
            /\ tloc' = [tloc EXCEPT ![th] =
                          [NoSave EXCEPT !.date_key = _get_date_key(date_obj),
                                         !.stats_data = stats_data]]
    /\ UNCHANGED <<fs, lock, cleaned, plugin_vars, worker_vars>>

\* with self._lock
save_acquire(th) ==
    /\ tpc[th] = "lock"
    /\ CanAcquire(lock)
    /\ lock' = th
    /\ tpc' = [tpc EXCEPT ![th] = "merge"]
    /\ UNCHANGED <<fs, tloc, cleaned, nsave, plugin_vars, worker_vars>>

\* read the existing file, merge, add date and saved_at
save_merge(th) ==
    /\ tpc[th] = "merge"
    /\ tloc' = [tloc EXCEPT ![th].data =
                  MergedStats(_load_json_file(_get_file_path(tloc[th].date_key)),
                              tloc[th].stats_data, tloc[th].date_key)]
    /\ tpc' = [tpc EXCEPT ![th] = "open"]
    /\ UNCHANGED <<fs, lock, cleaned, nsave, plugin_vars, worker_vars>>

\* _save_json_file: open(temp_file, "w") creates or truncates the file
_save_json_file_open(th, fails) ==
    /\ tpc[th] = "open"
    /\ IF fails
       THEN /\ tpc' = [tpc EXCEPT ![th] = "except"]
            /\ UNCHANGED fs
       ELSE /\ tpc' = [tpc EXCEPT ![th] = "dump"]
            /\ fs' = Put(fs, temp_file(_get_file_path(tloc[th].date_key)), Partial)
    /\ UNCHANGED <<lock, tloc, cleaned, nsave, plugin_vars, worker_vars>>

\* _save_json_file: json.dump and close
_save_json_file_dump(th, fails) ==
    /\ tpc[th] = "dump"
    /\ IF fails
       THEN /\ tpc' = [tpc EXCEPT ![th] = "except"]
            /\ UNCHANGED fs
       ELSE /\ tpc' = [tpc EXCEPT ![th] = "rename"]
            /\ fs' = Put(fs, temp_file(_get_file_path(tloc[th].date_key)),
                         Complete(tloc[th].data))
    /\ UNCHANGED <<lock, tloc, cleaned, nsave, plugin_vars, worker_vars>>

\* os.rename(src, dst)
Rename(files, src, dst) ==
    IF src = dst THEN files ELSE Drop(Put(files, dst, files[src]), {src})

\* _save_json_file: os.rename(temp_file, file_path), return True
_save_json_file_rename(th, fails) ==
    /\ tpc[th] = "rename"
    /\ IF fails
       THEN /\ tpc' = [tpc EXCEPT ![th] = "except"]
            /\ UNCHANGED <<fs, tloc>>
       ELSE /\ tpc' = [tpc EXCEPT ![th] = "release"]
            /\ fs' = Rename(fs, temp_file(_get_file_path(tloc[th].date_key)),
                            _get_file_path(tloc[th].date_key))
            /\ tloc' = [tloc EXCEPT ![th].ok = TRUE]
    /\ UNCHANGED <<lock, cleaned, nsave, plugin_vars, worker_vars>>

\* _save_json_file: the except branch removes the temporary file if there is
\* one, return False
_save_json_file_except(th) ==
    /\ tpc[th] = "except"
    /\ fs' = Drop(fs, {temp_file(_get_file_path(tloc[th].date_key))})
    /\ tpc' = [tpc EXCEPT ![th] = "release"]
    /\ UNCHANGED <<lock, tloc, cleaned, nsave, plugin_vars, worker_vars>>

\* end of "with self._lock"
save_release(th) ==
    /\ tpc[th] = "release"
    /\ lock' = IF lock = th THEN NoThread ELSE lock
    /\ tpc' = [tpc EXCEPT ![th] = "idle"]
    /\ UNCHANGED <<fs, tloc, cleaned, nsave, plugin_vars, worker_vars>>

\* the process is interrupted while a save is under way and started again:
\* the threads and the lock are gone, the files stay
interrupt ==
    /\ \E th \in TrendThreads : tpc[th] # "idle"
    /\ tpc' = [th \in TrendThreads |-> "idle"]
    /\ tloc' = [th \in TrendThreads |-> NoSave]
    /\ lock' = NoThread
    /\ _cleanup_running' = FALSE
    /\ wpc' = "none"
    /\ UNCHANGED <<fs, cleaned, nsave, ncycle, server_vars, plugin_vars>>

\* the position that list.sort(key = date) gives the entry at position p:
\* after the entries of an earlier date and the earlier entries of the same
\* date (the sort is stable)
SortedPosition(seq, p) ==
    Cardinality({ q \in 1..Len(seq) :
                     \/ seq[q].date < seq[p].date
                     \/ seq[q].date = seq[p].date /\ q < p }) + 1

\* variant: the list is left in the order of the loop
SortByDate_none(seq) == seq

\* list.sort(key = date): stable, ascending
SortByDate(seq) ==
    LET position == SubSeq([p \in 1..Len(seq) |-> SortedPosition(seq, p)], 1, Len(seq))
    IN  [i \in 1..Len(seq) |-> seq[CHOOSE p \in 1..Len(seq) : position[p] = i]]

\* the loop of load_history_stats over i = 0 .. days - 1: the record of
\* today minus i days, a date without a readable file is skipped
HistoryLoop(days) ==
    LET found == { i \in 0..(days - 1) :
                      DOMAIN load_daily_stats(now - i * SecondsPerDay) # {} }
        \* how many of the found dates come before the date of i
        before == SubSeq([n \in 1..days |-> Cardinality({ j \in found : j < n - 1 })],
                         1, days)
    IN  [k \in 1..Cardinality(found) |->
            load_daily_stats(now - (CHOOSE i \in found : before[i + 1] = k - 1)
                                      * SecondsPerDay)]

load_history_stats(days) == SortByDate(HistoryLoop(days))

\* strptime(date_str, "%Y-%m-%d"): midnight of the date in the file name
file_date(file_path) == file_path[1] * SecondsPerDay

\* variant: the retention period is not taken off
cutoff_now(days) == now

\* datetime.now() - timedelta(days = max_days)
cutoff_date(days) == now - days * SecondsPerDay

\* the ".json" files of the directory whose date is before the cutoff
OldFiles(days) ==
    { f \in DOMAIN fs : f[2] = "json" /\ file_date(f) < cutoff_date(days) }

\* the body of TrendDataStorage.cleanup_old_data under the lock
StorageCleanup(days) ==
    /\ fs' = Drop(fs, OldFiles(days))
    /\ cleaned' = Cardinality(OldFiles(days))

\* TrendDataStorage.cleanup_old_data(max_days)
storage_cleanup_old_data(days) ==
    /\ CanAcquire(lock)
    /\ nsave < MaxSaves
    /\ nsave' = nsave + 1
    /\ StorageCleanup(days)
    /\ UNCHANGED <<lock, tpc, tloc, plugin_vars, worker_vars>>

-----------------------------------------------------------------------------
(* The cleanup worker of the web server (src/web_server.py, WebServer).    *)

\* _get_usage_stats: {} without a connection; with one, the call of
\* self.plugin._get_reset_period_date(), which the plugin does not define,
\* raises AttributeError
_get_usage_stats == IF ~redis THEN "empty" ELSE "AttributeError"

\* _start_cleanup_thread: the worker starts with a cleanup and a snapshot
_start_cleanup_thread ==
    /\ wpc = "none"
    /\ _cleanup_running' = TRUE
    /\ wpc' = "cleanup"
    /\ UNCHANGED <<ncycle, server_vars, trend_vars, plugin_vars>>

\* _perform_cleanup: an exception of the cleanup is caught and logged
_perform_cleanup(fails) ==
    /\ wpc = "cleanup"
    /\ CanAcquire(lock)
    /\ IF fails THEN UNCHANGED <<fs, cleaned>> ELSE StorageCleanup(max_days)
    /\ wpc' = "save"
    /\ UNCHANGED <<lock, tpc, tloc, nsave, _cleanup_running, ncycle, server_vars,
                   plugin_vars>>

\* _save_current_stats: the statistics are saved only when _get_usage_stats
\* returns a dictionary with a date; {} is skipped and the exception is
\* caught and logged
_save_current_stats ==
    /\ wpc = "save"
    /\ IF _get_usage_stats \in {"empty", "AttributeError"}
       THEN UNCHANGED fs
       ELSE fs' = Put(fs, _get_file_path(_get_date_key(now)),
                      Complete(MergedStats(load_daily_stats(now), EmptyMap,
                                           _get_date_key(now))))
    /\ wpc' = "sleep"
    /\ ncycle' = ncycle + 1
    /\ UNCHANGED <<lock, tpc, tloc, cleaned, nsave, _cleanup_running, server_vars,
                   plugin_vars>>

\* time.sleep(cleanup_interval) returns: the next cycle, or the end of the
\* loop once _cleanup_running is False
worker_wakes ==
    /\ wpc = "sleep"
    /\ ncycle < MaxCycles
    /\ wpc' = IF _cleanup_running THEN "cleanup" ELSE "stopped"
    /\ UNCHANGED <<_cleanup_running, ncycle, server_vars, trend_vars, plugin_vars>>

\* _stop_cleanup_thread: the flag is cleared for a worker that is alive
_stop_cleanup_thread ==
    /\ wpc \notin {"none", "stopped"}
    /\ _cleanup_running' = FALSE
    /\ UNCHANGED <<wpc, ncycle, server_vars, trend_vars, plugin_vars>>

-----------------------------------------------------------------------------
(* Start and stop of the server (src/web_server.py, WebServer).  Every     *)
(* start creates a worker thread; the threads are numbered in the order of *)
(* their creation and each is at a position of _cleanup_worker.            *)

Workers == 1..MaxWorkers

\* Thread.is_alive() of a worker
IsAlive(w) == threads[w] \in {"created", "while", "sleep"}

\* is_running: the flag is set and the server thread is alive
is_running == _server_running /\ _server_thread = "serving"

\* start_async: nothing is done for a running server; otherwise a worker
\* is created, then the server thread, and the call waits until the server
\* thread serves (started) or gives up after an error of the server thread
start_async(started) ==
    /\ spc = "idle"
    /\ IF is_running
       THEN UNCHANGED <<_cleanup_running, server_vars>>
       ELSE /\ \E w \in Workers : threads[w] = "none"
            /\ LET w == CHOOSE v \in Workers :
                           threads[v] = "none" /\ \A u \in 1..(v - 1) : threads[u] # "none"
               IN  /\ _cleanup_running' = TRUE
                   /\ _cleanup_thread' = w
                   /\ threads' = [threads EXCEPT ![w] = "created"]
            /\ _server_running' = started
            /\ _server_thread' = IF started THEN "serving" ELSE "ended"
            /\ UNCHANGED <<spc, signalled>>
    /\ UNCHANGED <<wpc, ncycle, trend_vars, plugin_vars>>

\* stop, up to the join: the flag of the server is cleared;
\* _stop_cleanup_thread returns at once when the latest worker is missing
\* or not alive, and clears _cleanup_running otherwise
stop ==
    /\ spc = "idle"
    /\ _server_running' = FALSE
    /\ IF _cleanup_thread = 0 \/ ~IsAlive(_cleanup_thread)
       THEN UNCHANGED <<_cleanup_running, signalled>>
       ELSE /\ _cleanup_running' = FALSE
            /\ signalled' = signalled \cup {_cleanup_thread}
    /\ spc' = "stopping"
    /\ UNCHANGED <<_server_thread, _cleanup_thread, threads, wpc, ncycle, trend_vars,
                   plugin_vars>>

\* stop, from the join on: join(timeout = 5) returns when the worker has
\* ended or the time is over; the server instance is shut down and
\* _cleanup_resources forgets the server thread
stop_returns ==
    /\ spc = "stopping"
    /\ _server_thread' = "None"
    /\ spc' = "idle"
    /\ UNCHANGED <<_server_running, _cleanup_thread, threads, signalled,
                   _cleanup_running, wpc, ncycle, trend_vars, plugin_vars>>

\* one cleanup and one snapshot: the snapshot writes nothing, since
\* _get_usage_stats gives no dictionary with a date
WorkerCycle ==
    /\ CanAcquire(lock)
    /\ StorageCleanup(max_days)
    /\ UNCHANGED <<lock, tpc, tloc, nsave>>

\* _cleanup_worker, before the loop: the cycle at start
_cleanup_worker(w) ==
    /\ threads[w] = "created"
    /\ WorkerCycle
    /\ threads' = [threads EXCEPT ![w] = "while"]
    /\ UNCHANGED <<_server_running, _server_thread, _cleanup_thread, spc, signalled,
                   _cleanup_running, wpc, ncycle, plugin_vars>>

\* _cleanup_worker, "while self._cleanup_running": sleep, or leave the loop
_cleanup_worker_while(w) ==
    /\ threads[w] = "while"
    /\ threads' = [threads EXCEPT ![w] = IF _cleanup_running THEN "sleep" ELSE "ended"]
    /\ UNCHANGED <<_server_running, _server_thread, _cleanup_thread, spc, signalled,
                   _cleanup_running, wpc, ncycle, trend_vars, plugin_vars>>

\* _cleanup_worker, after time.sleep(cleanup_interval): one more cycle when
\* _cleanup_running is set
_cleanup_worker_sleep(w) ==
    /\ threads[w] = "sleep"
    /\ IF _cleanup_running THEN WorkerCycle ELSE UNCHANGED trend_vars
    /\ threads' = [threads EXCEPT ![w] = "while"]
    /\ UNCHANGED <<_server_running, _server_thread, _cleanup_thread, spc, signalled,
                   _cleanup_running, wpc, ncycle, plugin_vars>>

-----------------------------------------------------------------------------
(* Statistics and trends of the dashboard (src/web_server.py, WebServer).  *)

\* strftime("%Y-%m-%d") of the date with the day number d; the store holds
\* no key of a date before day 0
strftime_date(d) == IF d < 0 THEN "before" ELSE DateStr(d * SecondsPerDay)

\* KEYS "astrbot:daily_limit:<date>:*:*"
_get_user_keys_for_date(d) ==
    { k \in DOMAIN redis_data :
        Len(k) >= 5 /\ k[1] = "astrbot" /\ k[2] = "daily_limit" /\ k[3] = strftime_date(d) }

\* KEYS "astrbot:daily_limit:<date>:group:*"
_get_group_keys_for_date(d) ==
    { k \in _get_user_keys_for_date(d) : k[4] = "group" }

\* the sum of the values under the keys
_calculate_total_requests(user_keys) == SumOver(redis_data, user_keys)

\* the statistics of the date d as the dashboard computes them
_get_daily_stats_from_redis(d) ==
    ("total_requests" :> _calculate_total_requests(_get_user_keys_for_date(d)))
    @@ ("active_users" :> Cardinality(_get_user_keys_for_date(d)))
    @@ ("active_groups" :> Cardinality(_get_group_keys_for_date(d)))
    @@ ("date" :> d)

\* _get_period_days and period_days_map of get_trend_data
period_days_map(period) ==
    CASE period = "day" -> 7
      [] period = "week" -> 28
      [] period = "month" -> 90
      [] OTHER -> 28

get_trend_data(period) == load_history_stats(period_days_map(period))

\* one entry of the trend list
Point(d, source) == [date |-> d, source |-> source]

\* where _generate_trends_data_points takes the entry of the day d from
PointSource(d) ==
    IF DOMAIN _load_json_file(_get_file_path(d)) # {} THEN "historical"
    ELSE IF redis THEN "redis" ELSE "default"

\* the loop of _generate_trends_data_points: the entry of today minus i days
\* for i = 0 .. days - 1
PointsLoop(days) ==
    [n \in 1..days |-> Point(DayOf(now) - (n - 1), PointSource(DayOf(now) - (n - 1)))]

_generate_trends_data_points(days) == SortByDate(PointsLoop(days))

\* the days whose statistics _generate_trends_data_points(days) saves
GeneratedSaves(days) ==
    { d \in (DayOf(now) - days + 1)..DayOf(now) : PointSource(d) = "redis" }

\* the number of entries that _get_trends_data has generated
missing_days(period) ==
    LET days == period_days_map(period)
        found == Len(get_trend_data(period))
    IN  IF found = 0 THEN days ELSE IF found < days THEN days - found ELSE 0

\* the list "data" that _get_trends_data returns
trends_data(period) ==
    LET historical_trends == get_trend_data(period)
        stored == [i \in 1..Len(historical_trends) |->
                      Point(historical_trends[i]["date"], "historical")]
    IN  IF Len(historical_trends) = 0
        THEN _generate_trends_data_points(period_days_map(period))
        ELSE IF Len(stored) < period_days_map(period)
             THEN SortByDate(stored \o _generate_trends_data_points(missing_days(period)))
        ELSE stored

\* GET /api/trends: the list is returned and the statistics of the days
\* that were taken from the store are saved, each through its temporary file
_get_trends_data(period) ==
    /\ CanAcquire(lock)
    /\ nsave < MaxSaves
    /\ nsave' = nsave + 1
    /\ LET saved == { _get_file_path(d) : d \in GeneratedSaves(missing_days(period)) }
           kept == DOMAIN fs \ ({ temp_file(q) : q \in saved } \cup saved)
       IN  fs' = [p \in kept |-> fs[p]]
                 @@ [p \in saved |->
                       Complete(MergedStats(None, _get_daily_stats_from_redis(p[1]), p[1]))]
    /\ UNCHANGED <<lock, tpc, tloc, cleaned, plugin_vars, worker_vars>>

-----------------------------------------------------------------------------
(* Operations that delete counters.                                        *)

\* an operation that works on the store, between two requests; the history
\* keeps its name in last.decision
Maintenance(op) ==
    /\ Idle
    /\ nmut < MaxMutations
    /\ nmut' = nmut + 1
    /\ last' = [NoRequest EXCEPT !.decision = op]
    /\ epoch' = EmptyMap
    /\ UNCHANGED <<redis, policy_vars, now, pc, req, denied, nreq, worker_vars>>

\* DEL of a set of keys
Delete(keys) ==
    /\ redis_data' = Drop(redis_data, keys)
    /\ redis_ttl' = Drop(redis_ttl, keys)

\* KEYS "astrbot:daily_limit:*"
DailyLimitKeys ==
    { k \in DOMAIN redis_data : Len(k) >= 3 /\ k[1] = "astrbot" /\ k[2] = "daily_limit" }

\* the keys the dashboard takes for old: parts = key.split(":"), at least
\* four parts and parts[3], the fourth one, is not today's date
old_keys == { k \in DailyLimitKeys : Len(k) >= 4 /\ k[4] # DateStr(now) }

\* WebServer: POST /api/management/cleanup-old-data
cleanup_old_data ==
    /\ Maintenance("Cleanup")
    /\ CanAcquire(lock)
    /\ IF redis THEN Delete(old_keys) /\ StorageCleanup(max_days)
       ELSE UNCHANGED <<store_vars, fs, cleaned>>
    /\ UNCHANGED <<lock, tpc, tloc, nsave>>

\* KEYS "<today_key>:*"
TodayKeys ==
    { k \in DOMAIN redis_data : Len(k) >= 4 /\ SubSeq(k, 1, 3) = _get_today_key }

\* the argument of "/limit reset": "all", "group <id>" or "<id>"
ResetAll == [kind |-> "all", id |-> None]
ResetGroup(group_id) == [kind |-> "group", id |-> group_id]
ResetUser(user_id) == [kind |-> "user", id |-> user_id]

\* str.isdigit() on the identifiers of the model
isdigit(id) == id \in { <<"1001">>, <<"1002">>, <<"2001">>, <<"2002">> }

HasPrefix(k, p) == Len(k) >= Len(p) /\ SubSeq(k, 1, Len(p)) = p
HasSuffix(k, p) == Len(k) >= Len(p) /\ SubSeq(k, Len(k) - Len(p) + 1, Len(k)) = p

\* the group's shared key if it exists, and KEYS "<today_key>:<group_id>:*"
GroupResetKeys(group_id) ==
    ({ _get_group_key(group_id) } \cap DOMAIN redis_data)
    \cup { k \in DOMAIN redis_data :
               Len(k) > 3 + Len(group_id) /\ HasPrefix(k, _get_today_key \o group_id) }

\* KEYS "<today_key>:*:<user_id>"
UserResetKeys(user_id) ==
    { k \in DOMAIN redis_data :
         /\ Len(k) > 3 + Len(user_id)
         /\ HasPrefix(k, _get_today_key)
         /\ HasSuffix(k, user_id) }

\* the keys that "/limit reset <target>" deletes; an identifier that is not
\* a number is refused
ResetKeys(target) ==
    CASE target.kind = "all" -> TodayKeys
      [] target.kind = "group" ->
            IF isdigit(target.id) THEN GroupResetKeys(target.id) ELSE {}
      [] OTHER ->
            IF isdigit(target.id) THEN UserResetKeys(target.id) ELSE {}

\* the number of records that the answer of the command reports
deleted_count(target) == Cardinality(ResetKeys(target))

\* "/limit reset <target>"; without a connection the command returns at once
limit_reset(target) ==
    /\ Maintenance("Reset")
    /\ IF redis THEN Delete(ResetKeys(target)) ELSE UNCHANGED store_vars
    /\ UNCHANGED trend_vars

limit_reset_all == limit_reset(ResetAll)

\* WebServer: POST /api/management/reset-stats. The call of
\* self.plugin._get_reset_period_date(), which the plugin does not define,
\* raises AttributeError; the handler catches it and answers with an error
\* before any key is read or deleted
reset_stats ==
    /\ Maintenance("ResetStats")
    /\ UNCHANGED <<store_vars, trend_vars>>

-----------------------------------------------------------------------------
(* Time.                                                                   *)

AllTimes == { d * SecondsPerDay + s : d \in 0..MaxDay, s \in ClockPoints }

\* the clock reaches t; Redis drops the keys whose expiry has come
Tick(t) ==
    /\ Idle
    /\ t > now
    /\ now' = t
    /\ LET st == ExpireKeys(Store, t)
       IN  /\ redis_data' = st.data
           /\ redis_ttl' = st.ttl
    /\ Disturb
    /\ UNCHANGED <<redis, policy_vars, pc, req, denied, nreq, nmut, trend_vars, worker_vars>>

-----------------------------------------------------------------------------
(* Construction: the policy is loaded from the configuration file and the  *)
(* connection is opened.                                                   *)

\* configuration files the plugin is started with
Configs ==
    { [exempt |-> {}, users |-> EmptyMap, groups |-> EmptyMap, modes |-> EmptyMap,
       periods |-> << >>, default |-> 2],
      [exempt |-> {}, users |-> (U1 :> 10), groups |-> (G1 :> 2), modes |-> EmptyMap,
       periods |-> << Window(<<9, 0>>, <<18, 0>>, 1, "True") >>, default |-> 2],
      [exempt |-> {U1}, users |-> (U2 :> 1), groups |-> EmptyMap,
       modes |-> (G1 :> "individual"), periods |-> << >>, default |-> 2] }

\* __init__ with one of the configuration files configs, at the time t
InitFrom(configs, t) ==
    /\ \E c \in configs :
         /\ exempt_users = c.exempt
         /\ default_daily_limit = c.default
         /\ user_limits = c.users
         /\ group_limits = c.groups
         /\ group_modes = c.modes
         /\ config_time_period_limits = c.periods
         /\ time_period_limits = LoadLoop(c.periods, << >>, 1, FALSE)
    /\ tpl_shared = FALSE
    /\ redis \in BOOLEAN
    /\ redis_data = EmptyMap
    /\ redis_ttl = EmptyMap
    /\ now = t
    /\ pc = [p \in Procs |-> "idle"]
    /\ req = [p \in Procs |-> NoRequest]
    /\ last = NoRequest
    /\ epoch = EmptyMap
    /\ denied = {}
    /\ nreq = 0
    /\ nmut = 0
    /\ fs = EmptyMap
    /\ lock = NoThread
    /\ tpc = [th \in TrendThreads |-> "idle"]
    /\ tloc = [th \in TrendThreads |-> NoSave]
    /\ cleaned = 0
    /\ _cleanup_running = FALSE
    /\ wpc = "none"
    /\ nsave = 0
    /\ ncycle = 0
    /\ _server_running = FALSE
    /\ _server_thread = "None"
    /\ _cleanup_thread = 0
    /\ threads = [w \in Workers |-> "none"]
    /\ spc = "idle"
    /\ signalled = {}

Init == InitFrom(Configs, 43230)

\* configuration files with time windows: an overnight window; two
\* overlapping windows, the narrower and laxer one first; a window whose
\* start time does not parse, before a valid one; a disabled window
WindowConfigs ==
    { [exempt |-> {}, users |-> EmptyMap, groups |-> EmptyMap, modes |-> EmptyMap,
       periods |-> << Window(<<22, 0>>, <<6, 0>>, 1, "True") >>, default |-> 2],
      [exempt |-> {}, users |-> EmptyMap, groups |-> EmptyMap, modes |-> EmptyMap,
       periods |-> << Window(<<10, 0>>, <<14, 0>>, 2, "True"),
                      Window(<<9, 0>>, <<18, 0>>, 1, "True") >>, default |-> 3],
      [exempt |-> {}, users |-> EmptyMap, groups |-> EmptyMap, modes |-> EmptyMap,
       periods |-> << Window(<<25, 0>>, <<6, 0>>, 1, "True"),
                      Window(<<22, 0>>, <<6, 0>>, 3, "True") >>, default |-> 2],
      [exempt |-> {}, users |-> EmptyMap, groups |-> EmptyMap, modes |-> EmptyMap,
       periods |-> << Window(<<9, 0>>, <<18, 0>>, 1, "False") >>, default |-> 2] }

WindowInit == InitFrom(WindowConfigs, 43230)

-----------------------------------------------------------------------------
(* Specifications.                                                         *)

\* sequential requests and administrative commands at one time of one day
Next ==
    \/ \E r \in Requests : on_llm_request(r[1], r[2], r[3])
    \/ \E u \in Users, l \in SetLimits : limit_set(u, l)
    \/ \E g \in Groups, l \in GroupSetLimits : limit_setgroup(g, l)
    \/ \E g \in Groups, m \in {"shared", "individual"} : limit_setmode(g, m)
    \/ \E u \in Users : limit_exempt(u)
    \/ \E u \in Users : limit_unexempt(u)
    \/ \E a \in AddChoices : limit_timeperiod_add(a[1], a[2], a[3])
    \/ \E i \in 1..MaxWindows : limit_timeperiod_remove(i)
    \/ \E i \in 1..MaxWindows : limit_timeperiod_enable(i)
    \/ \E i \in 1..MaxWindows : limit_timeperiod_disable(i)
    \/ \E rc \in {"keep", "ok", "fail"} : update_config(rc)

Spec == Init /\ [][Next]_vars

\* sequential requests under a fixed policy over several days
ClockNext ==
    \/ \E r \in Requests : on_llm_request(r[1], r[2], r[3])
    \/ \E t \in AllTimes : Tick(t)

ClockSpec == Init /\ [][ClockNext]_vars

\* requests, the clock and the operations that delete counters
MaintNext ==
    \/ \E r \in Requests : on_llm_request(r[1], r[2], r[3])
    \/ \E t \in AllTimes : Tick(t)
    \/ cleanup_old_data
    \/ limit_reset_all
    \/ reset_stats

MaintSpec == Init /\ [][MaintNext]_vars

\* configuration files for the reset command: two groups with shared
\* counters; the same groups with per-member counters; a window around noon
ResetConfigs ==
    { [exempt |-> {}, users |-> EmptyMap, groups |-> EmptyMap, modes |-> EmptyMap,
       periods |-> << >>, default |-> 2],
      [exempt |-> {}, users |-> EmptyMap, groups |-> EmptyMap,
       modes |-> (<<"2001">> :> "individual") @@ (<<"2002">> :> "individual"),
       periods |-> << >>, default |-> 2],
      [exempt |-> {}, users |-> EmptyMap, groups |-> EmptyMap,
       modes |-> (<<"2001">> :> "individual"),
       periods |-> << Window(<<9, 0>>, <<18, 0>>, 1, "True") >>, default |-> 2] }

ResetInit == InitFrom(ResetConfigs, 43230)

ResetGroups == { <<"2001">>, <<"2002">> }

\* user 1001 in private, in group 2001 and in group 2002
ResetRequests ==
    { <<U1, None, FALSE>>, <<U1, <<"2001">>, FALSE>>, <<U1, <<"2002">>, FALSE>> }

\* the arguments of "/limit reset": everything, one group, the user who
\* sends the requests, a user whose number is that of a group, and a name
ResetTargets ==
    { ResetAll, ResetGroup(<<"2001">>), ResetUser(U1), ResetUser(<<"2001">>),
      ResetUser(<<"abc">>) }

\* requests and the reset command
ResetNext ==
    \/ \E r \in ResetRequests : on_llm_request(r[1], r[2], r[3])
    \/ \E t \in ResetTargets : limit_reset(t)

ResetSpec == ResetInit /\ [][ResetNext]_vars

\* the storage starts at 12:00:30 of day 2
TrendStart == 2 * SecondsPerDay + 43230

TrendInit == InitFrom({ c \in Configs : c.periods = << >> /\ c.exempt = {} }, TrendStart)

\* the dates that statistics are saved for: day 0, day 1 and day 2
SaveDates == { 0, SecondsPerDay, 2 * SecondsPerDay }

\* the dictionaries that are saved; the empty one is refused
SaveChoices ==
    { ("total_requests" :> 5), ("active_users" :> 2),
      ("total_requests" :> 7) @@ ("active_users" :> 1), EmptyMap }

\* retention periods in days
RetentionChoices == {1, 2}

\* one thread saves, writes may fail, the process may be interrupted, and
\* old files are cleaned up
TrendNext ==
    \/ \E d \in SaveDates, st \in SaveChoices : save_daily_stats("t1", d, st)
    \/ save_acquire("t1")
    \/ save_merge("t1")
    \/ \E fails \in BOOLEAN : _save_json_file_open("t1", fails)
    \/ \E fails \in BOOLEAN : _save_json_file_dump("t1", fails)
    \/ \E fails \in BOOLEAN : _save_json_file_rename("t1", fails)
    \/ _save_json_file_except("t1")
    \/ save_release("t1")
    \/ interrupt
    \/ \E days \in RetentionChoices : storage_cleanup_old_data(days)

TrendSpec == TrendInit /\ [][TrendNext]_vars

\* the dictionaries that two threads save for one date
ConcSaveChoices == { ("total_requests" :> 5), ("active_users" :> 2) }

\* two threads save for day 2
TrendConcNext ==
    \/ \E th \in TrendThreads, st \in ConcSaveChoices :
          save_daily_stats(th, 2 * SecondsPerDay, st)
    \/ \E th \in TrendThreads : save_acquire(th)
    \/ \E th \in TrendThreads : save_merge(th)
    \/ \E th \in TrendThreads : _save_json_file_open(th, FALSE)
    \/ \E th \in TrendThreads : _save_json_file_dump(th, FALSE)
    \/ \E th \in TrendThreads : _save_json_file_rename(th, FALSE)
    \/ \E th \in TrendThreads : save_release(th)

TrendConcSpec == TrendInit /\ [][TrendConcNext]_vars

\* requests, the worker and its start and stop
WorkerNext ==
    \/ \E r \in Requests : on_llm_request(r[1], r[2], r[3])
    \/ _start_cleanup_thread
    \/ \E fails \in BOOLEAN : _perform_cleanup(fails)
    \/ _save_current_stats
    \/ worker_wakes
    \/ _stop_cleanup_thread

WorkerSpec == Init /\ [][WorkerNext]_vars

\* calls of start_async and stop on one server, and its worker threads
LifecycleNext ==
    \/ \E started \in BOOLEAN : start_async(started)
    \/ stop
    \/ stop_returns
    \/ \E w \in Workers : _cleanup_worker(w)
    \/ \E w \in Workers : _cleanup_worker_while(w)
    \/ \E w \in Workers : _cleanup_worker_sleep(w)

LifecycleSpec == TrendInit /\ [][LifecycleNext]_vars

\* the periods that the dashboard asks trends for
Periods == {"day", "week", "month"}

\* the dates that snapshots are saved for beside the trends: today and the
\* day before
TrendsDates == { SecondsPerDay, 2 * SecondsPerDay }

\* snapshots are saved and the dashboard asks for the trends
TrendsNext ==
    \/ \E d \in TrendsDates : save_daily_stats("t1", d, ("total_requests" :> 5))
    \/ save_acquire("t1")
    \/ save_merge("t1")
    \/ _save_json_file_open("t1", FALSE)
    \/ _save_json_file_dump("t1", FALSE)
    \/ _save_json_file_rename("t1", FALSE)
    \/ save_release("t1")
    \/ \E period \in Periods : _get_trends_data(period)

TrendsSpec == TrendInit /\ [][TrendsNext]_vars

\* the requests of the specification with time windows
WindowRequests == { <<U1, None, FALSE>>, <<U2, G1, FALSE>> }

\* the times at which that specification looks at the clock after its start
\* at 12:00:30: 23:30:00, then 05:00:00 and 06:00:30 of the next day
WindowTimes == { 84600, SecondsPerDay + 18000, SecondsPerDay + 21630 }

\* sequential requests, window commands and a reload while time passes
WindowNext ==
    \/ \E r \in WindowRequests : on_llm_request(r[1], r[2], r[3])
    \/ \E t \in WindowTimes : Tick(t)
    \/ \E a \in AddChoices : limit_timeperiod_add(a[1], a[2], a[3])
    \/ \E i \in 1..MaxWindows : limit_timeperiod_remove(i)
    \/ \E i \in 1..MaxWindows : limit_timeperiod_enable(i)
    \/ \E i \in 1..MaxWindows : limit_timeperiod_disable(i)
    \/ update_config("keep")

WindowSpec == WindowInit /\ [][WindowNext]_vars

\* identifiers as the platform hands them over: opaque strings, which may
\* be a word the key format uses or contain the separator ("a:b", "b:c")
OpaqueUsers == { <<"2001">>, <<"c">>, <<"b", "c">> }
OpaqueGroups == { <<"group">>, <<"2001">>, <<"a">>, <<"a", "b">> }

OpaqueRequests ==
    { <<(<<"2001">>), (<<"group">>), FALSE>>, <<(<<"2001">>), (<<"2001">>), FALSE>>,
      <<(<<"c">>), (<<"a", "b">>), FALSE>>, <<(<<"b", "c">>), (<<"a">>), FALSE>> }

\* sequential requests with such identifiers and changes of the group mode
OpaqueNext ==
    \/ \E r \in OpaqueRequests : on_llm_request(r[1], r[2], r[3])
    \/ \E g \in OpaqueGroups, m \in {"shared", "individual"} : limit_setmode(g, m)

OpaqueSpec == Init /\ [][OpaqueNext]_vars

\* concurrent requests and a concurrent configuration update
ConcNext ==
    \/ \E p \in Procs, r \in Requests : req_enter(p, r[1], r[2], r[3])
    \/ \E p \in Procs : req_read_usage(p)
    \/ \E p \in Procs : req_check(p)
    \/ \E p \in Procs : req_increment(p)
    \/ \E p \in Procs : req_record(p)
    \/ \E rc \in {"ok", "fail"} : update_config(rc)

ConcSpec == Init /\ [][ConcNext]_vars

-----------------------------------------------------------------------------
(* Vocabulary of the properties.                                           *)

IsDailyKey(k) == Len(k) >= 3 /\ k[2] = "daily_limit"
IsWindowKey(k) == Len(k) >= 3 /\ k[2] = "time_period_limit"
IsCounterKey(k) == IsDailyKey(k) \/ IsWindowKey(k)

DailyCounters(data) == [k \in {j \in DOMAIN data : IsDailyKey(j)} |-> data[k]]
WindowCounters(data) == [k \in {j \in DOMAIN data : IsWindowKey(j)} |-> data[k]]
Counters(data) == [k \in {j \in DOMAIN data : IsCounterKey(j)} |-> data[k]]

\* a step that completes a request in the sequential specifications
RequestStep == nreq' = nreq + 1

\* the scope of a request as the data model defines it
ScopeKind(group_id) ==
    IF group_id = None THEN "private"
    ELSE IF group_id \in DOMAIN group_modes /\ group_modes[group_id] = "individual"
         THEN "individual"
    ELSE "shared"

\* the daily counter of the scope of a request
ScopeDailyKey(user_id, group_id) ==
    CASE ScopeKind(group_id) = "private" -> _get_user_key(user_id, None)
      [] ScopeKind(group_id) = "shared" -> _get_group_key(group_id)
      [] OTHER -> _get_user_key(user_id, group_id)

\* the counter of the scope of a request for the window at position i
ScopeWindowKey(i, user_id, group_id) ==
    CASE ScopeKind(group_id) = "private" -> TimePeriodKey(i - 1, user_id, None)
      [] ScopeKind(group_id) = "shared" -> TimePeriodKey(i - 1, None, group_id)
      [] OTHER -> TimePeriodKey(i - 1, user_id, group_id)

\* the positions of the enabled windows that contain now
EnabledMatching ==
    { i \in MatchingPeriods(time_period_limits, now) :
        time_period_limits[i].enabled # "False" }

-----------------------------------------------------------------------------
\* C1: with a fixed policy and an available store, of the requests checked
\* against one counter that started at zero and were all given the same
\* limit L, the first L are Allowed and every later one, the (L+1)-th first,
\* is Denied with limit L and leaves the counter at L.
C1_ExhaustThenDeny ==
    (last.key # NoKey /\ last.key \in DOMAIN epoch) =>
        LET e == epoch[last.key]
        IN  (e.same /\ e.base = 0) =>
               /\ e.n <= e.lim => last.decision = "Allowed"
               /\ e.n > e.lim =>
                     /\ last.decision = "Denied"
                     /\ last.limit = e.lim
                     /\ Get(redis_data, last.key) = e.lim

\* the request after the last free slot of a limit of at least 1 was refused
C1_Witness ==
    /\ last.decision = "Denied"
    /\ last.key \in DOMAIN epoch
    /\ epoch[last.key].same
    /\ epoch[last.key].base = 0
    /\ epoch[last.key].lim >= 1
    /\ epoch[last.key].n = epoch[last.key].lim + 1

\* C2: whatever the interleaving of concurrent requests, the number of
\* requests Allowed against one counter within a period never exceeds the
\* limit (no configuration update taking place).
C2_RaceFree ==
    nmut = 0 =>
        \A k \in DOMAIN epoch :
            (epoch[k].same /\ epoch[k].base = 0) => epoch[k].allowed <= epoch[k].lim

\* the limit the resolution order of the data model gives: exempt, first
\* enabled window containing now, per-identity, per-group, default
ClaimedLimit(user_id, group_id) ==
    IF user_id \in exempt_users THEN Inf
    ELSE IF EnabledMatching # {} THEN time_period_limits[FirstOf(EnabledMatching)].limit
    ELSE IF user_id \in DOMAIN user_limits THEN user_limits[user_id]
    ELSE IF group_id # None /\ group_id \in DOMAIN group_limits THEN group_limits[group_id]
    ELSE default_daily_limit

\* C3: the resolver returns the limit of the first applicable rule in the
\* order exempt, first enabled window containing now, per-identity override,
\* per-group override, global default.
C3_ResolutionOrder ==
    \A u \in Users, g \in Groups \cup {None} :
        _get_user_limit(u, g) = ClaimedLimit(u, g)

\* C4: the resolver returns Unlimited for every exempt identity, and a
\* request of an exempt identity is never Denied.
C4_ExemptNeverDenied ==
    /\ \A u \in exempt_users, g \in Groups \cup {None} : _get_user_limit(u, g) = Inf
    /\ last.user \in exempt_users => last.decision # "Denied"

\* C5: no request is Allowed without its unit having been consumed, also
\* when the store becomes unavailable while the request is handled.
C5_FailClosed == last.decision = "Allowed" => last.consumed

\* C6: a step that answers Denied leaves every usage counter as it was.
C6_DeniedConsumesNothing ==
    [][(RequestStep /\ last'.decision = "Denied")
          => Counters(redis_data') = Counters(redis_data)]_vars

\* a request was refused because its scope had used up a limit of at least 1
C6_Witness ==
    /\ last.decision = "Denied"
    /\ last.reason = "limit"
    /\ last.usage >= 1
    /\ Get(redis_data, last.key) = last.usage

\* the counters of the scope of a request: its daily counter and its counter
\* for each window
ScopeCounterKeys(user_id, group_id) ==
    {ScopeDailyKey(user_id, group_id)}
    \cup {ScopeWindowKey(i, user_id, group_id) : i \in 1..Len(time_period_limits)}

C8_ExemptNoStore ==
    [][(RequestStep /\ last'.user \in exempt_users /\ last'.decision # "Skipped")
          => (last'.decision = "Exempt" /\ redis_data' = redis_data
              /\ redis_ttl' = redis_ttl)]_vars

\* C9: a request that reaches the limit check is governed by the window
\* counter of its scope when an enabled window contains now, and by the
\* daily counter of its scope otherwise; an Allowed step changes no counter
\* of the other kind.
C9_OneCounterGoverns ==
    [][(RequestStep /\ last'.key # NoKey) =>
          IF EnabledMatching # {}
          THEN /\ last'.key = ScopeWindowKey(FirstOf(EnabledMatching),
                                             last'.user, last'.group)
               /\ DailyCounters(redis_data') = DailyCounters(redis_data)
          ELSE /\ last'.key = ScopeDailyKey(last'.user, last'.group)
               /\ WindowCounters(redis_data') = WindowCounters(redis_data)]_vars

\* the midnight that ends the day of time t
NextMidnight(t) == (DayOf(t) + 1) * SecondsPerDay

\* the key of the same counter one day earlier
PreviousDayKey(k) == [k EXCEPT ![3] = DateStr(now - SecondsPerDay)]

\* every daily counter in the store belongs to today and expires at the
\* coming midnight
C10_ExpiresAtMidnight ==
    \A k \in DOMAIN redis_data :
        IsDailyKey(k) =>
            /\ k[3] = DateStr(now)
            /\ k \in DOMAIN redis_ttl
            /\ redis_ttl[k] = NextMidnight(now)

\* once midnight has passed every scope reads a usage of 0 from its daily
\* counter, and a request finding its daily counter at 0 under a limit of
\* at least 1 is Allowed
C10_FreshPeriod ==
    /\ DayOf(now') > DayOf(now) =>
          \A r \in Requests : Get(redis_data', ScopeDailyKey(r[1], r[2])') = 0
    /\ (RequestStep /\ last'.key # NoKey /\ IsDailyKey(last'.key)
        /\ Get(redis_data, last'.key) = 0 /\ last'.limit >= 1)
          => last'.decision = "Allowed"

\* C10: a daily counter expires at the next midnight, whichever increment
\* set its expiry last; after midnight the usage of every scope is 0 again
\* and a scope refused the day before is Allowed.
C10_DailyReset == []C10_ExpiresAtMidnight /\ [][C10_FreshPeriod]_vars

\* a scope that was refused for quota yesterday is allowed today
C10_Witness ==
    /\ last.decision = "Allowed"
    /\ IsDailyKey(last.key)
    /\ DayOf(now) >= 1
    /\ PreviousDayKey(last.key) \in denied

-----------------------------------------------------------------------------
\* the usage that the handler reads for a request of user_id in group_id
ScopeUsage(user_id, group_id) ==
    read_usage(Returned(user_id, group_id, "Pending", "")).usage

\* the seconds from the time t, inside the window w, to the last second of
\* the end minute of w: the rest of this occurrence of the window
SecondsToEnd(w, t) ==
    (strptime_HM(w.end_time) * 60 + 59 - SecondOfDay(t)) % SecondsPerDay

\* the time passes from now to now' inside one occurrence of the window that
\* governs now, under an unchanged policy and an available store
SameOccurrence ==
    /\ redis /\ redis'
    /\ now' > now
    /\ time_period_limits' = time_period_limits
    /\ MatchingPeriods(time_period_limits, now) # {}
    /\ now' - now <=
          SecondsToEnd(time_period_limits[FirstOf(MatchingPeriods(time_period_limits, now))],
                       now)

\* C11: a window counter lasts until its window ends: while the time passes
\* inside one occurrence of the governing window (an overnight window
\* included), the usage of every scope in that window stays what it was.
C11_WindowCounterLasts ==
    [][SameOccurrence =>
          \A r \in WindowRequests : ScopeUsage(r[1], r[2])' = ScopeUsage(r[1], r[2])]_vars

\* the logical scopes over the opaque identifiers
OpaqueScopes ==
    { <<"private", u>> : u \in OpaqueUsers }
    \cup { <<"shared", g>> : g \in OpaqueGroups }
    \cup { <<"member", g, u>> : g \in OpaqueGroups, u \in OpaqueUsers }

\* the daily counter key of a scope
DailyKeyOf(s) ==
    CASE s[1] = "private" -> _get_user_key(s[2], None)
      [] s[1] = "shared" -> _get_group_key(s[2])
      [] OTHER -> _get_user_key(s[3], s[2])

\* the key of a scope's counter for the first configured window
WindowKeyOf(s) ==
    CASE s[1] = "private" -> TimePeriodKey(0, s[2], None)
      [] s[1] = "shared" -> TimePeriodKey(0, None, s[2])
      [] OTHER -> TimePeriodKey(0, s[3], s[2])

\* the logical scope of a request
ScopeOf(user_id, group_id) ==
    CASE ScopeKind(group_id) = "private" -> <<"private", user_id>>
      [] ScopeKind(group_id) = "shared" -> <<"shared", group_id>>
      [] OTHER -> <<"member", group_id, user_id>>

\* C12: counter keys are injective on the scope, for opaque identifiers:
\* the key that a request of one scope was checked against is the key of its
\* own scope and of no other logical scope (private identity, group-shared,
\* member of a group; daily or window counter) of the same period.
C12_KeysInjective ==
    last.key # NoKey =>
        \A s \in OpaqueScopes :
            (last.key = DailyKeyOf(s) \/ last.key = WindowKeyOf(s))
                <=> s = ScopeOf(last.user, last.group)

\* C13: a reminder accompanies an Allowed request exactly when the count
\* remaining after its consumption, the limit minus the new value of the
\* counter, is 1, 3 or 5.
C13_ReminderAfterConsumption ==
    (last.decision = "Allowed" /\ last.consumed) =>
        (last.reminder <=> (last.limit - Get(redis_data, last.key)) \in {1, 3, 5})

\* the counters of user_id as a member of group_id: daily and per window
MemberCounterKeys(user_id, group_id) ==
    {_get_user_key(user_id, group_id)}
    \cup {TimePeriodKey(i - 1, user_id, group_id) : i \in 1..Len(time_period_limits)}

\* the shared counters of group_id: daily and per window
SharedCounterKeys(group_id) ==
    {_get_group_key(group_id)}
    \cup {TimePeriodKey(i - 1, None, group_id) : i \in 1..Len(time_period_limits)}

\* C14: a change of a group's mode leaves every counter as it was; a later
\* request of a member of a group in individual mode is checked against
\* that member's own counter, whose value does not depend on the group's
\* shared counter (it starts at zero), and leaves the shared counter alone.
C14_ModeSwitch ==
    [][/\ group_modes' # group_modes =>
             (redis_data' = redis_data /\ redis_ttl' = redis_ttl)
       /\ (RequestStep /\ last'.key # NoKey /\ ScopeKind(last'.group) = "individual") =>
             /\ last'.key \in MemberCounterKeys(last'.user, last'.group)
             /\ last'.usage = Get(redis_data, last'.key)
             /\ \A k \in SharedCounterKeys(last'.group) :
                   Get(redis_data', k) = Get(redis_data, k)]_vars

\* a group whose shared counter was filled by two identities was switched to
\* individual mode, and the first request of a member afterwards started
\* from zero on the member's own counter
C14_Witness ==
    /\ last.decision = "Allowed"
    /\ last.group = G1
    /\ ScopeKind(G1) = "individual"
    /\ last.usage = 0
    /\ Get(redis_data, _get_group_key(G1)) = 2
    /\ Get(redis_data, _get_user_key(last.user, G1)) = 1
    /\ \A u \in Users :
          Get(redis_data, _get_usage_stats_key \o <<"group">> \o G1 \o <<"user">> \o u) >= 1

\* C15: a disabled window determines neither the limit nor the counter of a
\* request: when a request was checked against a window counter, the window
\* that supplied its limit and its counter is an enabled one.
C15_OnlyEnabledWindows ==
    (last.key # NoKey /\ IsWindowKey(last.key)) =>
        LET m == MatchingPeriods(time_period_limits, now)
        IN  /\ m # {}
            /\ time_period_limits[FirstOf(m)].enabled # "False"

\* the contexts a request can come from
Contexts == Groups \cup {None}

\* no window contains now, so that the daily rules decide
NoWindowNow == MatchingPeriods(time_period_limits, now) = {}

\* C16: a policy mutation is visible to the very next resolution: once a
\* command has completed, the resolver answers from the mutated policy (the
\* new per-identity or per-group limit, the new mode, the new exempt set, the
\* new list of windows), and a request is checked against the limit that the
\* resolver gives at that moment.
C16_MutationsVisible ==
    [][/\ \A u \in Users, l \in SetLimits : limit_set(u, l) =>
             \A g \in Contexts :
                 (u \notin exempt_users' /\ NoWindowNow') => _get_user_limit(u, g)' = l
       /\ \A g \in Groups, l \in GroupSetLimits : limit_setgroup(g, l) =>
             \A u \in Users :
                 (u \notin exempt_users' /\ NoWindowNow' /\ u \notin DOMAIN user_limits')
                     => _get_user_limit(u, g)' = l
       /\ \A g \in Groups, m \in {"shared", "individual"} : limit_setmode(g, m) =>
             _get_group_mode(g)' = m
       /\ \A u \in Users : limit_exempt(u) =>
             \A g \in Contexts : _get_user_limit(u, g)' = Inf
       /\ \A u \in Users : limit_unexempt(u) =>
             \A g \in Contexts : _get_user_limit(u, g)' # Inf
       /\ \A a \in AddChoices :
             (limit_timeperiod_add(a[1], a[2], a[3]) /\ NoWindowNow
              /\ _is_in_time_period(strftime_HM(now), a[1], a[2])) =>
                 \A u \in Users \ exempt_users', g \in Contexts :
                     _get_user_limit(u, g)' = a[3]
       /\ \A i \in 1..Len(time_period_limits) :
             (limit_timeperiod_remove(i)
              /\ MatchingPeriods(time_period_limits, now) = {i}) => NoWindowNow'
       /\ (RequestStep /\ last'.key # NoKey) =>
             last'.limit = _get_user_limit(last'.user, last'.group)]_vars

\* a per-identity limit of 0 was set and the next request of that identity
\* was refused with it
C16_Witness ==
    /\ nmut = 1
    /\ last.decision = "Denied"
    /\ last.reason = "limit"
    /\ last.limit = 0
    /\ last.user \in DOMAIN user_limits
    /\ user_limits[last.user] = 0

\* the least position among the windows that contain now
FirstMatching ==
    CHOOSE i \in MatchingPeriods(time_period_limits, now) :
        \A j \in MatchingPeriods(time_period_limits, now) : i <= j

\* C17: among the windows that contain now the first in configured order
\* wins, whatever the widths and limits of the others, and a request is
\* checked against the limit of that window and against the counter of that
\* same window for its scope.
C17_FirstMatchWins ==
    MatchingPeriods(time_period_limits, now) # {} =>
        /\ \A u \in Users \ exempt_users, g \in Contexts :
              _get_user_limit(u, g) = time_period_limits[FirstMatching].limit
        /\ last.key # NoKey =>
              /\ last.limit = time_period_limits[FirstMatching].limit
              /\ last.key = ScopeWindowKey(FirstMatching, last.user, last.group)
              /\ last.decision = "Allowed" => Get(redis_data, last.key) = last.usage + 1

\* two windows contain now; the first is the narrower one and has the higher
\* limit, and a request was counted under it
C17_Witness ==
    /\ Cardinality(MatchingPeriods(time_period_limits, now)) >= 2
    /\ \E j \in MatchingPeriods(time_period_limits, now) :
          /\ j > FirstMatching
          /\ time_period_limits[j].limit < time_period_limits[FirstMatching].limit
          /\ _is_in_time_period(time_period_limits[FirstMatching].start_time,
                                time_period_limits[j].start_time,
                                time_period_limits[j].end_time)
          /\ time_period_limits[j].start_time # time_period_limits[FirstMatching].start_time
    /\ last.decision = "Allowed"
    /\ last.key = ScopeWindowKey(FirstMatching, last.user, last.group)

\* minutes since midnight of an "HH:MM" pair and of the clock
Minutes(hm) == hm[1] * 60 + hm[2]
MinuteOfDay(t) == SecondOfDay(t) \div 60

\* the minute cur lies on the way from start forward to end around the clock
OnTheWay(cur, start, end) ==
    \E k \in 0..((end - start) % 1440) : (start + k) % 1440 = cur

\* C18: at hour:minute granularity a window contains now iff now lies
\* between start and end, both included, going forward from start and
\* wrapping past midnight when start > end; 22:00-06:00 matches 23:30 and
\* 05:00 but not 12:00; the handler uses a window counter exactly then.
C18_WindowMatching ==
    /\ \A i \in 1..Len(time_period_limits) :
          i \in MatchingPeriods(time_period_limits, now)
             <=> OnTheWay(MinuteOfDay(now), Minutes(time_period_limits[i].start_time),
                          Minutes(time_period_limits[i].end_time))
    /\ _is_in_time_period(<<23, 30>>, <<22, 0>>, <<6, 0>>)
    /\ _is_in_time_period(<<5, 0>>, <<22, 0>>, <<6, 0>>)
    /\ ~_is_in_time_period(<<12, 0>>, <<22, 0>>, <<6, 0>>)
    /\ last.key # NoKey =>
          (IsWindowKey(last.key) <=>
              \E i \in 1..Len(time_period_limits) :
                  OnTheWay(MinuteOfDay(now), Minutes(time_period_limits[i].start_time),
                           Minutes(time_period_limits[i].end_time)))

\* a request at 05:00 was counted under the window 22:00-06:00
C18_Witness ==
    /\ SecondOfDay(now) = 18000
    /\ \E i \in 1..Len(time_period_limits) :
          /\ time_period_limits[i].start_time = <<22, 0>>
          /\ time_period_limits[i].end_time = <<6, 0>>
          /\ i \in MatchingPeriods(time_period_limits, now)
    /\ last.decision = "Allowed"
    /\ IsWindowKey(last.key)

\* a window whose start or end time does not parse
Malformed(start_time, end_time) ==
    strptime_HM(start_time) = ValueError \/ strptime_HM(end_time) = ValueError

\* no window, user limit or group limit applies to the user in the context
NoRuleApplies(user_id, group_id) ==
    /\ user_id \notin exempt_users
    /\ MatchingPeriods(time_period_limits, now) = {}
    /\ user_id \notin DOMAIN user_limits
    /\ group_id = None \/ group_id \notin DOMAIN group_limits

C19_State ==
    /\ \A i \in 1..Len(time_period_limits) :
          ~Malformed(time_period_limits[i].start_time, time_period_limits[i].end_time)
    /\ \A u \in Users, g \in Contexts :
          /\ _get_user_limit(u, g) \in Nat
          /\ NoRuleApplies(u, g) => _get_user_limit(u, g) = default_daily_limit

C19_Step ==
    \A a \in AddChoices :
        Malformed(a[1], a[2]) /\ limit_timeperiod_add(a[1], a[2], a[3])
            => UNCHANGED time_period_limits

\* C19: a window whose start or end time does not parse never enters the
\* list of windows, neither at load nor by "/limit timeperiod add", which
\* leaves the list as it was; the resolver always yields a number, and the
\* global default when no rule applies.
C19_MalformedRejected == []C19_State /\ [][C19_Step]_vars

\* the configuration holds a malformed window that was not loaded, and a
\* request was resolved to the global default
C19_Witness ==
    /\ \E i \in 1..Len(config_time_period_limits) :
          Malformed(config_time_period_limits[i].start_time,
                    config_time_period_limits[i].end_time)
    /\ Len(time_period_limits) < Len(config_time_period_limits)
    /\ last.key # NoKey
    /\ NoRuleApplies(last.user, last.group)
    /\ last.limit = default_daily_limit

\* the counters of the current period that the store holds
CurrentCounters ==
    { k \in DOMAIN redis_data : IsCounterKey(k) /\ k[3] = DateStr(now) }

\* C20: a counter of the current period is removed only by the store's
\* expiry or by the administrative reset; every other step, the dashboard's
\* cleanup-old-data among them, leaves every counter of the current period
\* in place.
C20_OnlyExpiryOrReset ==
    [][ \/ \E t \in AllTimes : Tick(t)
        \/ limit_reset_all
        \/ CurrentCounters \subseteq DOMAIN redis_data' ]_vars

\* C21: after the administrative "reset all" (the command or the
\* dashboard's reset-stats) every scope's usage for the current period is 0,
\* whether its daily counter or the counter of an active window governs it,
\* so that the next request of a scope with a limit >= 1 is allowed.
C21_ResetAllClears ==
    [][ (limit_reset_all \/ reset_stats) /\ redis
            => \A u \in Users, g \in Contexts : ScopeUsage(u, g)' = 0 ]_vars

\* the counter keys of the scopes inside the group: its shared counter and
\* the counters of its members, for the day and for every window
GroupScopeKeys(group_id) ==
    { _get_group_key(group_id) }
    \cup { _get_user_key(u, group_id) : u \in Users }
    \cup { TimePeriodKey(i, u, group_id) :
              i \in 0..(MaxWindows - 1), u \in Users \cup {None} }

\* C22: resetting one group removes the group's shared counter and every
\* per-member counter within the group for the current period, and leaves
\* every counter of another group or of a private scope as it was.
C22_GroupReset ==
    [][ \A g \in ResetGroups :
            limit_reset(ResetGroup(g)) /\ redis =>
                /\ \A k \in GroupScopeKeys(g) : k \notin DOMAIN redis_data'
                /\ \A k \in CurrentCounters \ GroupScopeKeys(g) :
                      k \in DOMAIN redis_data' /\ redis_data'[k] = redis_data[k] ]_vars

\* the counter keys of the scopes of one identity: its private counter and
\* its per-member counters in the groups, for the day and for every window
UserScopeKeys(user_id) ==
    { _get_user_key(user_id, c) : c \in ResetGroups \cup {None} }
    \cup { TimePeriodKey(i, user_id, c) :
              i \in 0..(MaxWindows - 1), c \in ResetGroups \cup {None} }

\* the scope that the reset is aimed at has consumed nothing
ZeroConsumption(target) ==
    CASE target.kind = "all" -> CurrentCounters = {}
      [] target.kind = "group" -> GroupScopeKeys(target.id) \cap DOMAIN redis_data = {}
      [] OTHER -> UserScopeKeys(target.id) \cap DOMAIN redis_data = {}

\* C23: reset is idempotent: a reset of a scope (all, one identity, one
\* group) with zero consumption changes nothing in the store and reports
\* zero records removed, and after a reset the same reset finds nothing
\* more to remove.
C23_ResetIdempotent ==
    [][ \A t \in ResetTargets :
            limit_reset(t) /\ redis =>
                /\ ZeroConsumption(t) => UNCHANGED store_vars /\ deleted_count(t) = 0
                /\ ResetKeys(t)' = {} ]_vars

\* the limit in the order that the help commands print, from highest to
\* lowest: time window, exempt user, per-user limit, per-group limit, default
HelpLimit(user_id, group_id) ==
    IF MatchingPeriods(time_period_limits, now) # {}
    THEN time_period_limits[FirstMatching].limit
    ELSE IF user_id \in exempt_users THEN Inf
    ELSE IF user_id \in DOMAIN user_limits THEN user_limits[user_id]
    ELSE IF group_id # None /\ group_id \in DOMAIN group_limits THEN group_limits[group_id]
    ELSE default_daily_limit

\* the limit that the handled request was held to
AppliedLimit(r) == IF r.decision = "Exempt" THEN Inf ELSE r.limit

\* C30: a request is held to the limit that the priority order of the help
\* commands gives: the time window first, overriding the other rules, then
\* the exemption, the per-user limit, the per-group limit and the default.
C30_HelpPriority ==
    (last.decision = "Exempt" \/ last.key # NoKey)
        => AppliedLimit(last) = HelpLimit(last.user, last.group)

\* the file of the date that the thread saves for
SavePath(th) == _get_file_path(tloc[th].date_key)

MetaFields == {"date", "saved_at"}

\* C24: a save merges per field: when save(date, B) completes on a stored
\* record A, load(date) yields a record with every field of B, every field
\* of A that B does not have, and date and saved_at; no field of A or B is
\* lost.
C24_SaveMerges ==
    [][ \A th \in TrendThreads :
            _save_json_file_rename(th, FALSE) =>
                LET A == _load_json_file(SavePath(th))
                    B == tloc[th].stats_data
                    R == _load_json_file(SavePath(th))'
                IN  /\ DOMAIN R = DOMAIN A \cup DOMAIN B \cup MetaFields
                    /\ \A f \in DOMAIN B \ MetaFields : R[f] = B[f]
                    /\ \A f \in DOMAIN A \ (DOMAIN B \cup MetaFields) : R[f] = A[f]
                    /\ R["date"] = tloc[th].date_key ]_vars

\* total_requests 5 and active_users 2 were saved one after the other for
\* one date, and the record holds both
C24_Witness ==
    \E p \in DOMAIN fs :
        /\ p[2] = "json"
        /\ {"total_requests", "active_users"} \subseteq DOMAIN fs[p].data
        /\ fs[p].data["total_requests"] = 5
        /\ fs[p].data["active_users"] = 2

RecordFiles(files) == { p \in DOMAIN files : p[2] = "json" }

C25_State == \A p \in RecordFiles(fs) : fs[p].complete

C25_Step ==
    \A p \in RecordFiles(fs) \cup RecordFiles(fs') :
        (_load_json_file(p))' # _load_json_file(p) =>
            \/ p \notin DOMAIN fs' /\ \E days \in RetentionChoices : p \in OldFiles(days)
            \/ \E th \in TrendThreads :
                  /\ tpc[th] = "rename"
                  /\ p = SavePath(th)
                  /\ p \in DOMAIN fs'
                  /\ fs'[p] = Complete(tloc[th].data)

\* C25: a record file is complete at every point of a write, also when the
\* write fails or the process is interrupted between the temporary file and
\* the rename; what a reader of a date sees changes only from the previous
\* complete record (or absence) to the new complete record.
C25_AtomicWrite == []C25_State /\ [][C25_Step]_vars

\* a write was interrupted: the half-written temporary file lies beside the
\* previous complete record
C25_Witness ==
    \E p \in RecordFiles(fs) :
        /\ temp_file(p) \in DOMAIN fs
        /\ ~fs[temp_file(p)].complete
        /\ fs[p].complete
        /\ tpc["t1"] = "idle"

\* the positions between acquiring and releasing the lock
InCritical(th) == tpc[th] \in {"merge", "open", "dump", "rename", "except", "release"}

C26_State == Cardinality({ th \in TrendThreads : InCritical(th) }) <= 1

C26_Step ==
    \A th \in TrendThreads :
        _save_json_file_rename(th, FALSE) =>
            \A f \in DOMAIN _load_json_file(SavePath(th)) \ MetaFields :
                /\ f \in DOMAIN fs'[SavePath(th)].data
                /\ f \notin DOMAIN tloc[th].stats_data =>
                      fs'[SavePath(th)].data[f] = _load_json_file(SavePath(th))[f]

\* C26: the saves of two threads of one storage to the same date are
\* serialized: at most one thread is between reading the record and
\* writing it back, and a save never drops a field that the record holds.
C26_SavesSerialized == []C26_State /\ [][C26_Step]_vars

\* both threads have saved, each its own field, and the record holds both
C26_Witness ==
    /\ tloc["t1"].ok /\ tloc["t2"].ok
    /\ DOMAIN tloc["t1"].stats_data \cap DOMAIN tloc["t2"].stats_data = {}
    /\ tpc["t2"] = "release"
    /\ \E p \in RecordFiles(fs) :
          DOMAIN tloc["t1"].stats_data \cup DOMAIN tloc["t2"].stats_data
              \subseteq DOMAIN fs[p].data

\* numbers of days asked for: up to one more than the days of the model
HistoryDays == 1..4

\* C27: load_history_stats(n) returns the stored records of the last n
\* dates, today back to today minus n - 1, oldest first, one per date that
\* has a record, and nothing else.
C27_HistoryOrdered ==
    \A n \in HistoryDays :
        LET r == load_history_stats(n)
            today == DayOf(now)
            present == { d \in (today - n + 1)..today : _get_file_path(d) \in DOMAIN fs }
        IN  /\ Len(r) = Cardinality(present)
            /\ \A i \in 1..Len(r) :
                  /\ r[i]["date"] \in present
                  /\ r[i] = fs[_get_file_path(r[i]["date"])].data
            /\ \A i, j \in 1..Len(r) : i < j => r[i]["date"] < r[j]["date"]

\* day 0 and day 2 have a record and day 1 has none
C27_Witness ==
    /\ DayOf(now) = 2
    /\ RecordFiles(fs) = { _get_file_path(0), _get_file_path(2) }
    /\ Len(load_history_stats(3)) = 2

\* C28: cleanup(retention_days) deletes every record whose date is before
\* now minus retention_days, keeps every other record as it is, and
\* returns the number of records it deleted.
C28_RetentionCleanup ==
    [][ \A days \in RetentionChoices :
            storage_cleanup_old_data(days) =>
                /\ \A p \in RecordFiles(fs) :
                      IF p[1] * SecondsPerDay < now - days * SecondsPerDay
                      THEN p \notin DOMAIN fs'
                      ELSE p \in DOMAIN fs' /\ fs'[p] = fs[p]
                /\ DOMAIN fs' \subseteq DOMAIN fs
                /\ cleaned' = Cardinality(DOMAIN fs \ DOMAIN fs') ]_vars

\* a cleanup deleted one record and kept another
C28_Witness ==
    /\ cleaned = 1
    /\ RecordFiles(fs) # {}

\* C29: each cycle of the running worker, at start and after every
\* interval, takes a snapshot of the current statistics: with the store
\* connected the record of the current date exists after the snapshot step.
C29_WorkerSnapshots ==
    [][ _save_current_stats /\ redis
            => _get_file_path(_get_date_key(now)) \in DOMAIN fs' ]_vars

\* the identities that "/limit reset <id>" is aimed at
ResetIdentities == { U1, <<"2001">> }

\* C31: resetting the counters of one identity removes only counters whose
\* scope is that identity (its private counter and its per-member counters
\* in groups); the shared counter of every group and the counters of every
\* other identity stay as they were, also when a group has the identifier
\* of the identity.
C31_IdentityResetFrame ==
    [][ \A u \in ResetIdentities :
            limit_reset(ResetUser(u)) /\ redis =>
                \A k \in CurrentCounters \ UserScopeKeys(u) :
                    k \in DOMAIN redis_data' /\ redis_data'[k] = redis_data[k] ]_vars

\* the limit of the group itself: its override, or the global default
GroupOwnLimit(group_id) ==
    IF group_id \in DOMAIN group_limits THEN group_limits[group_id]
    ELSE default_daily_limit

\* C32: in shared mode with no window containing now, a request of a
\* non-exempt member that is Allowed leaves the group's shared counter at
\* most at the group's own limit (its override, or the global default),
\* whatever per-identity override the member has.
C32_SharedWithinGroupLimit ==
    [][ (RequestStep /\ last'.decision = "Allowed" /\ last'.group # None
         /\ ScopeKind(last'.group) = "shared" /\ NoWindowNow)
            => Get(redis_data', _get_group_key(last'.group))
                  <= GroupOwnLimit(last'.group) ]_vars

\* the usage that a scope has consumed in the window at position i: the
\* value of the counter that the handler reads for that window
WindowUsage(i, user_id, group_id) ==
    Get(redis_data, ScopeWindowKey(i, user_id, group_id))

\* the position of the window at position i once the window at j is removed
PositionAfterRemove(i, j) == IF i > j THEN i - 1 ELSE i

\* C33: the consumption counted for a window stays attributed to it: when a
\* different window is removed, added, enabled or disabled, the usage of
\* every scope in the window is what it was, within the same day.
C33_WindowAttribution ==
    [][ \A i \in 1..Len(time_period_limits), r \in WindowRequests :
          /\ \A j \in 1..Len(time_period_limits) \ {i} :
                limit_timeperiod_remove(j) =>
                    WindowUsage(PositionAfterRemove(i, j), r[1], r[2])'
                        = WindowUsage(i, r[1], r[2])
          /\ \A j \in 1..Len(time_period_limits) \ {i} :
                (limit_timeperiod_enable(j) \/ limit_timeperiod_disable(j)) =>
                    WindowUsage(i, r[1], r[2])' = WindowUsage(i, r[1], r[2])
          /\ \A a \in AddChoices :
                limit_timeperiod_add(a[1], a[2], a[3]) =>
                    WindowUsage(i, r[1], r[2])' = WindowUsage(i, r[1], r[2]) ]_vars

\* the keys of the store that hold usage records / statistics
IsRecordKey(k) == Len(k) >= 3 /\ k[2] = "usage_record"
IsStatsKey(k) == Len(k) >= 3 /\ k[2] = "usage_stats"

\* the number of usage records of the current date: the lengths of its lists
RecordCount(data) ==
    SumOver(data, { k \in DOMAIN data : IsRecordKey(k) /\ k[3] = DateStr(now) })

\* total_requests of the global statistics of the current date
TotalRequests(data) == Get(data, _get_usage_stats_key \o <<"global">>)

\* the records and statistics in the store are those of the current date,
\* and the global total is the number of records
C34_State ==
    /\ \A k \in DOMAIN redis_data :
          (IsRecordKey(k) \/ IsStatsKey(k)) => k[3] = DateStr(now)
    /\ TotalRequests(redis_data) = RecordCount(redis_data)

\* a request adds one to both when it is Allowed and nothing otherwise
C34_Step ==
    RequestStep =>
        LET one == IF last'.decision = "Allowed" /\ last'.consumed THEN 1 ELSE 0
        IN  /\ TotalRequests(redis_data') = TotalRequests(redis_data) + one
            /\ RecordCount(redis_data') = RecordCount(redis_data) + one

Bare(seq) ==
    [i \in 1..Len(seq) |->
        [start_time |-> seq[i].start_time, end_time |-> seq[i].end_time,
         limit |-> seq[i].limit]]

\* the windows that the persisted configuration gives: what loading it into
\* an empty list yields
ConfiguredWindows == Bare(LoadLoop(config_time_period_limits, << >>, 1, FALSE))

\* the windows of the plugin
AppliedWindows == Bare(time_period_limits)

\* C35: a reload of the policy from the configuration, as the dashboard's
\* configuration update does on the running plugin, leaves the policy in
\* memory equal to the persisted configuration: the windows of the plugin
\* are the windows of the configuration, none of them twice.
C35_ReloadFaithful ==
    [][ \A rc \in {"keep", "ok", "fail"} :
            update_config(rc) =>
                /\ AppliedWindows' = ConfiguredWindows'
                /\ \A i, j \in 1..Len(time_period_limits') :
                      i # j => AppliedWindows'[i] # AppliedWindows'[j] ]_vars

\* C36: the trend list that the dashboard returns for a period (a lookback
\* of 7, 28 or 90 days) is ordered by date, oldest first, and holds at most
\* one entry per calendar date, whatever subset of the dates has a stored
\* snapshot.
C36_TrendListOrdered ==
    [][ \A period \in Periods :
            _get_trends_data(period) =>
                LET data == trends_data(period)
                IN  \A i \in 1..(Len(data) - 1) : data[i].date < data[i + 1].date ]_vars

\* the workers that go on with their cycles: the worker threads that are
\* alive while the flag they test is set
ActiveWorkers == IF _cleanup_running THEN { w \in Workers : IsAlive(w) } ELSE {}

\* C37: over every sequence of start_async and stop calls on one server at
\* most one cleanup worker is active at any time, and a start_async on a
\* server that is running creates neither a server thread nor a worker.
C37_SingleWorker ==
    /\ [](Cardinality(ActiveWorkers) <= 1)
    /\ [][ \A started \in BOOLEAN :
              start_async(started) /\ is_running
                  => threads' = threads /\ _server_thread' = _server_thread ]_vars

\* the step in which worker w, back from its sleep, performs one more
\* cleanup and snapshot cycle
PerformsCycle(w) == _cleanup_worker_sleep(w) /\ _cleanup_running

\* C38: the worker is cancelled by the stop signal: once stop() has
\* signalled a worker it performs no further cleanup or snapshot cycle, the
\* wait of stop() for it is bounded (stop() returns whatever the worker
\* does), and after stop() the server reports not running.
C38_StopCancelsWorker ==
    /\ [][ \A w \in signalled : ~PerformsCycle(w) ]_vars
    /\ [](spc = "stopping" => ENABLED stop_returns)
    /\ [][ stop_returns => ~is_running' ]_vars

\* the daily counters of the date d
DailyKeysOf(d) ==
    { k \in DOMAIN redis_data :
        Len(k) >= 5 /\ k[1] = "astrbot" /\ k[2] = "daily_limit" /\ k[3] = strftime_date(d) }

\* the shared counters of groups among them
GroupSharedKeysOf(d) == { k \in DailyKeysOf(d) : k[4] = "group" }

\* the counters of identities among them (private, or per member of a group)
IdentityKeysOf(d) == DailyKeysOf(d) \ GroupSharedKeysOf(d)

\* the counters of the time windows of the date d
WindowKeysOf(d) ==
    { k \in DOMAIN redis_data :
        Len(k) >= 4 /\ k[1] = "astrbot" /\ k[2] = "time_period_limit"
        /\ k[3] = strftime_date(d) }

\* C39: with the store connected the statistics of the current date report
\* the number of identity counters as active_users, the number of group
\* shared counters as active_groups, and the units consumed under all
\* counters of the date, window counters included, as total_requests.
C39_UsageStatsScopes ==
    redis =>
        LET stats == _get_daily_stats_from_redis(DayOf(now))
        IN  /\ stats["active_users"] = Cardinality(IdentityKeysOf(DayOf(now)))
            /\ stats["active_groups"] = Cardinality(GroupSharedKeysOf(DayOf(now)))
            /\ stats["total_requests"] =
                   SumOver(redis_data, DailyKeysOf(DayOf(now)) \cup WindowKeysOf(DayOf(now)))

====
